---- MODULE Spec2Model ----
(***************************************************************************)
(* A model of cli-agent-openai-adapter: the OpenAI-compatible HTTP         *)
(* endpoint (server.ts), the two CLI adapters (claude_code.ts,             *)
(* gemini_cli.ts), their prompt builders and output normalisers.           *)
(*                                                                         *)
(* Text is represented in two ways.  A text that the code only copies or   *)
(* concatenates is a TLA+ string.  A text that the code inspects character *)
(* by character (message content that is JSON-escaped, subprocess output   *)
(* that is cleaned) is a sequence of one-character strings; Str renders    *)
(* such a sequence as a string.                                            *)
(***************************************************************************)
EXTENDS Integers, Sequences, FiniteSets, TLC

VARIABLES
    adapter,       \* the adapter instance handed to createServer: its fixed configuration
    pc,            \* per request: "idle", "rejected", "running" or "done"
    body,          \* per request: the JSON body that was posted
    child,         \* per request: the subprocess spawned by execute
    cb,            \* per request: the arguments execFile passed to its callback
    outcome,       \* per request: how adapter.execute settled
    response,      \* per request: the HTTP response
    executeCalls,  \* number of adapter.execute calls made so far
    spawned,       \* number of subprocesses spawned by execute so far
    console,       \* per request: the debug lines execute has written to the console
    messages,      \* the message list given to the prompt builder alone
    built,         \* what the prompt builder returned for it
    config,        \* the AdapterConfig given to AdapterFactory.create alone
    created,       \* how AdapterFactory.create ended for it
    raw,           \* the subprocess output given to the output normaliser alone
    normalized,    \* how the output normaliser ended for it
    probe,         \* the availability check: its position, the probes made, its result
    main           \* the command-line entry point: its position, exit code, requests accepted

vars == <<adapter, pc, body, child, cb, outcome, response, executeCalls, spawned, console,
          messages, built, config, created, raw, normalized, probe, main>>

serverVars == <<adapter, pc, body, child, cb, outcome, response, executeCalls, spawned, console>>

builderVars == <<messages, built>>

factoryVars == <<config, created>>

normaliserVars == <<raw, normalized>>

----------------------------------------------------------------------------
(* Bounds of the model *)

\* number of requests that may be in flight together
MaxReq == 2

\* longest subprocess output, in characters, of which every text is tried
MaxOut == 4

\* longest message list handed to the prompt builder
MaxMsgs == 3

Reqs == 1..MaxReq

----------------------------------------------------------------------------
(* Text helpers *)

RECURSIVE Str(_)
\* the string spelled by a sequence of characters
Str(cs) ==
    IF cs = <<>> THEN ""
    ELSE IF Len(cs) = 1 THEN cs[1]
    ELSE IF Len(cs) = 2 THEN cs[1] \o cs[2]
    ELSE IF Len(cs) = 3 THEN cs[1] \o cs[2] \o cs[3]
    ELSE cs[1] \o cs[2] \o cs[3] \o cs[4] \o Str(SubSeq(cs, 5, Len(cs)))

RECURSIVE JoinStr(_, _)
\* Array.prototype.join
JoinStr(parts, sep) ==
    IF parts = <<>> THEN ""
    ELSE IF Len(parts) = 1 THEN parts[1]
    ELSE parts[1] \o sep \o JoinStr(Tail(parts), sep)

\* JSON.stringify's escaping of one character of a string
JSONEscapeChar(c) ==
    CASE c = "\"" -> "\\\""
      [] c = "\\" -> "\\\\"
      [] c = "\n" -> "\\n"
      [] c = "\r" -> "\\r"
      [] c = "\t" -> "\\t"
      [] OTHER -> c

RECURSIVE JSONEscape(_)
JSONEscape(cs) == IF cs = <<>> THEN "" ELSE JSONEscapeChar(Head(cs)) \o JSONEscape(Tail(cs))

\* JSON.stringify of a string value
JSONQuote(cs) == "\"" \o JSONEscape(cs) \o "\""

\* JSON.stringify(m, null, 2) of one Message nested in an array: fields in the
\* order of the Message type, indented by two levels of two spaces
JSONStringifyMessage(m) ==
    "  {\n    \"role\": \"" \o m.role \o "\",\n    \"content\": " \o JSONQuote(m.content) \o "\n  }"

\* JSON.stringify(history, null, 2) of an array of Messages
JSONStringifyPretty(ms) ==
    IF ms = <<>> THEN "[]"
    ELSE "[\n" \o JoinStr([i \in DOMAIN ms |-> JSONStringifyMessage(ms[i])], ",\n") \o "\n]"

----------------------------------------------------------------------------
(* Messages *)

Roles == {"system", "user", "assistant"}

Undefined == [type |-> "undefined"]

\* FindSystem with a defect: the last system message is taken, not the first
FindSystemLast(ms) ==
    LET idx == {i \in DOMAIN ms : ms[i].role = "system"}
    IN  IF idx = {} THEN Undefined
        ELSE ms[CHOOSE i \in idx : \A j \in idx : j <= i]

\* Array.prototype.find with the predicate m.role === 'system'
FindSystem(ms) ==
    LET idx == {i \in DOMAIN ms : ms[i].role = "system"}
    IN  IF idx = {} THEN Undefined
        ELSE ms[CHOOSE i \in idx : \A j \in idx : i <= j]

\* systemMsg?.content || ''
BaseSystemPrompt(ms) ==
    LET systemMsg == FindSystem(ms)
    IN  IF systemMsg = Undefined THEN <<>> ELSE systemMsg.content

\* ConversationMessages with a defect: only the first system message is
\* taken out, later ones stay in the conversation
ConversationMessagesFirstOnly(ms) ==
    LET firsts == {i \in 1..Len(ms) : ms[i].role = "system"
                       /\ \A j \in 1..(i - 1) : ms[j].role # "system"}
    IN  [k \in 1..(Len(ms) - Cardinality(firsts)) |->
            IF \E i \in firsts : i <= k THEN ms[k + 1] ELSE ms[k]]

\* Array.prototype.filter with the predicate m.role !== 'system'
NotSystem(m) == m.role # "system"
ConversationMessages(ms) == SelectSeq(ms, NotSystem)

\* SliceAllButLast with a defect: nothing is cut off
SliceNothing(ms) == ms

\* Array.prototype.slice(0, -1)
SliceAllButLast(ms) == SubSeq(ms, 1, Len(ms) - 1)

----------------------------------------------------------------------------
(* Prompt builders *)

ClaudeConversationSystemPrompt ==
    "You are participating in a conversation. When conversation history is provided in JSON format, use it to understand the context and respond appropriately to the current user message."

GeminiConversationSystemPrompt ==
    "You are a generic, domain-agnostic AI assistant.\n\nIdentity and scope:\n- Do not identify as a specific product/tool or coding assistant.\n- Do not list capabilities or tools unless the user explicitly asks.\n- If a role label is required, use a minimal \"assistant\" identity only.\n\nEnvironment and tools:\n- Do not reference or infer local environment details (repos, files, editor, OS, terminal, processes, network).\n- Do not claim to run commands or open files. Offer steps as suggestions instead.\n- If the user shares environment details, do not extrapolate beyond what is provided.\n\nStyle and conduct:\n- Default to brief, direct, and helpful answers. Avoid long introductions.\n- For simple greetings (e.g., \"hi\"), reply with a short friendly greeting only.\n- Ask one concise clarification question when requirements are ambiguous.\n\nConversation handling:\n- When conversation history is provided in JSON, use it for context and respond to the latest user message.\n- Focus on the user's request and avoid unnecessary commentary."

\* baseSystemPrompt ? `${baseSystemPrompt}\n\n${CONVERSATION_SYSTEM_PROMPT}` : CONVERSATION_SYSTEM_PROMPT
SystemPrompt(ms, fixed) ==
    LET baseSystemPrompt == BaseSystemPrompt(ms)
    IN  IF baseSystemPrompt # <<>>
        THEN Str(baseSystemPrompt) \o "\n\n" \o fixed
        ELSE fixed

\* HistoryPart with a defect: the block is written for a single message too
HistoryPartAlways(ms) ==
    LET conversationMessages == ConversationMessages(ms)
    IN  IF Len(conversationMessages) >= 1
        THEN "Conversation history:\n"
                 \o JSONStringifyPretty(SliceAllButLast(conversationMessages)) \o "\n\n"
        ELSE ""

\* the history block both builders write when there is more than one
\* conversation message
HistoryPart(ms) ==
    LET conversationMessages == ConversationMessages(ms)
    IN  IF Len(conversationMessages) > 1
        THEN "Conversation history:\n"
                 \o JSONStringifyPretty(SliceAllButLast(conversationMessages)) \o "\n\n"
        ELSE ""

\* the current-message line both builders write when there is a last
\* conversation message
LatestPart(ms) ==
    LET conversationMessages == ConversationMessages(ms)
    IN  IF conversationMessages # <<>>
        THEN "Current user message: "
                 \o Str(conversationMessages[Len(conversationMessages)].content)
        ELSE ""

\* ClaudeCodeAdapter.buildClaudeCodeCommand
buildClaudeCodeCommand(ms) ==
    [systemPrompt |-> SystemPrompt(ms, ClaudeConversationSystemPrompt),
     userPrompt   |-> HistoryPart(ms) \o LatestPart(ms)]

\* buildGeminiPrompt with a defect: the history block is left out
buildGeminiPromptNoHistory(ms) ==
    "System instructions:\n" \o SystemPrompt(ms, GeminiConversationSystemPrompt) \o "\n\n"
        \o LatestPart(ms)

\* GeminiCLIAdapter.buildGeminiPrompt
buildGeminiPrompt(ms) ==
    "System instructions:\n" \o SystemPrompt(ms, GeminiConversationSystemPrompt) \o "\n\n"
        \o HistoryPart(ms) \o LatestPart(ms)

----------------------------------------------------------------------------
(* Output normalisation: plain-text mode *)

\* the character U+001B
ESC == "ESC"

\* the ten braille spinner glyphs of the cleanOutput pattern, by code point
SpinnerGlyphs ==
    {"U+280B", "U+2819", "U+2839", "U+2838", "U+283C",
     "U+2834", "U+2826", "U+2827", "U+2807", "U+280F"}

\* the character class [\[...\]] of the cleanOutput pattern
SpinnerClass == {"[", "]"} \cup SpinnerGlyphs

\* \s of a JavaScript regular expression, and String.prototype.trim
WhiteSpace == {" ", "\t", "\n", "\r", "\f"}

\* the characters after which ^ matches under the m flag, and which . skips
LineTerminators == {"\n", "\r"}

DigitChars == {"0", "1", "2", "3", "4", "5", "6", "7", "8", "9"}

\* [[\]()#;?] of ansi-regex
AnsiPrefixClass == {"[", "]", "(", ")", "#", ";", "?"}

\* [\dA-PR-TZcf-nq-uy=><~] of ansi-regex
AnsiFinalClass ==
    DigitChars \cup
    {"A", "B", "C", "D", "E", "F", "G", "H", "I", "J", "K", "L", "M", "N", "O", "P",
     "R", "S", "T", "Z", "c", "f", "g", "h", "i", "j", "k", "l", "m", "n",
     "q", "r", "s", "t", "u", "y", "=", ">", "<", "~"}

\* length of the longest run of characters of class cls that starts at s[p]
RECURSIVE RunLen(_, _, _)
RunLen(s, p, cls) ==
    IF p <= Len(s) /\ s[p] \in cls THEN 1 + RunLen(s, p + 1, cls) ELSE 0

MinOf(a, b) == IF a < b THEN a ELSE b

MaxIn(S) == CHOOSE x \in S : \A y \in S : y <= x

\* the final byte of a CSI sequence at s[q]: the index matched, 0 when none
AnsiFinal(s, q) == IF q <= Len(s) /\ s[q] \in AnsiFinalClass THEN q ELSE 0

\* (?:;\d{0,4})* then the final byte, from s[q]; greedy, so the longest
\* choice that lets the rest match is taken first
RECURSIVE AnsiParamTail(_, _)
AnsiParamTail(s, q) ==
    LET more == IF q <= Len(s) /\ s[q] = ";"
                THEN {n \in 0..MinOf(4, RunLen(s, q + 1, DigitChars)) :
                          AnsiParamTail(s, q + 1 + n) # 0}
                ELSE {}
    IN  IF more # {} THEN AnsiParamTail(s, q + 1 + MaxIn(more)) ELSE AnsiFinal(s, q)

\* (?:\d{1,4}(?:;\d{0,4})*)? then the final byte, from s[q]
AnsiParams(s, q) ==
    LET first == {n \in 1..MinOf(4, RunLen(s, q, DigitChars)) : AnsiParamTail(s, q + n) # 0}
    IN  IF first # {} THEN AnsiParamTail(s, q + MaxIn(first)) ELSE AnsiFinal(s, q)

\* the end of the escape sequence that starts with the ESC at s[p], 0 when the
\* pattern does not match there (the BEL-terminated alternative of ansi-regex
\* needs U+0007, which is not in the model's alphabets)
AnsiMatchEnd(s, p) ==
    LET k == {n \in 0..RunLen(s, p + 1, AnsiPrefixClass) : AnsiParams(s, p + 1 + n) # 0}
    IN  IF k = {} THEN 0 ELSE AnsiParams(s, p + 1 + MaxIn(k))

\* the characters of s at the indices outside gone, in order
Without(s, gone) ==
    LET Kept(i) == i \notin gone
        idx == SelectSeq([i \in DOMAIN s |-> i], Kept)
    IN  [j \in DOMAIN idx |-> s[idx[j]]]

\* the indices of s inside a match of ansi-regex.  The scan goes from left to
\* right and resumes after each match; no match holds an ESC after its first
\* character, so no ESC at which the pattern matches lies inside an earlier
\* match, and the matches are those at every such ESC.
AnsiMatched(s) ==
    {i \in DOMAIN s :
        \E p \in 1..i : s[p] = ESC /\ AnsiMatchEnd(s, p) >= i}

\* strip-ansi: string.replace(ansiRegex(), '')
stripAnsi(s) == Without(s, AnsiMatched(s))

\* ^ under the m flag: at the start of the input or after a line terminator
AtLineStart(s, p) == p = 1 \/ s[p - 1] \in LineTerminators

\* the first line terminator at or after s[p], "" when there is none
NextTerminator(s, p) ==
    LET at == {i \in p..Len(s) : s[i] \in LineTerminators}
    IN  IF at = {} THEN "" ELSE s[CHOOSE i \in at : \A j \in at : i <= j]

\* cleaned.replace(/^.*\r/gm, ''): every carriage return goes, with the
\* characters between it and the line start before it
RemoveCarriageReturnLines(s) ==
    Without(s, {i \in DOMAIN s : NextTerminator(s, i) = "\r"})

\* the end of the match of /^\s*[\[...\]]/m that starts at s[p], 0 when there
\* is none: p is a line start, and the white space from p is followed by a
\* character of the class
SpinnerMatchEnd(s, p) ==
    LET q == p + RunLen(s, p, WhiteSpace)
    IN  IF AtLineStart(s, p) /\ q <= Len(s) /\ s[q] \in SpinnerClass THEN q ELSE 0

\* cleaned.replace(/^\s*[\[...\]]/gm, ''): at a line start, the white space and
\* the one character of the class that follows it go.  The scan resumes after
\* each match; a line start inside a match has the same end as that match, so
\* what goes is what lies in a match from any line start.
RemoveSpinnerCharacters(s) ==
    Without(s, {i \in DOMAIN s : \E p \in 1..i : SpinnerMatchEnd(s, p) >= i})

RECURSIVE TrimStart(_)
TrimStart(s) == IF s # <<>> /\ Head(s) \in WhiteSpace THEN TrimStart(Tail(s)) ELSE s

RECURSIVE TrimEnd(_)
TrimEnd(s) ==
    IF s # <<>> /\ s[Len(s)] \in WhiteSpace THEN TrimEnd(SubSeq(s, 1, Len(s) - 1)) ELSE s

\* String.prototype.trim
Trim(s) == TrimEnd(TrimStart(s))

\* ClaudeCodeAdapter.cleanOutput and GeminiCLIAdapter.cleanOutput (the same code)
cleanOutput(stdout) ==
    Trim(RemoveSpinnerCharacters(RemoveCarriageReturnLines(stripAnsi(stdout))))

----------------------------------------------------------------------------
(* JavaScript values, as far as JSON.parse can produce them *)

JStr(cs) == [type |-> "string", value |-> cs]
JNum(n) == [type |-> "number", number |-> n]
JNull == [type |-> "null"]
JArr(items) == [type |-> "array", items |-> items]
\* an object with its keys in insertion order
JObj(keys, vals) == [type |-> "object", keys |-> keys, vals |-> vals]

\* how a call ends: with the value it returns or the error it throws
Returned(value) == [kind |-> "returned", value |-> value]
Thrown(error) == [kind |-> "thrown", error |-> error]
NoOutcome == [kind |-> "none"]

\* the characters of the property names and literals the code spells out
Chars(str) ==
    CASE str = "text" -> <<"t", "e", "x", "t">>
      [] str = "response" -> <<"r", "e", "s", "p", "o", "n", "s", "e">>
      [] str = "candidates" -> <<"c", "a", "n", "d", "i", "d", "a", "t", "e", "s">>
      [] str = "content" -> <<"c", "o", "n", "t", "e", "n", "t">>
      [] str = "parts" -> <<"p", "a", "r", "t", "s">>
      [] str = "null" -> <<"n", "u", "l", "l">>
      [] str = "role" -> <<"r", "o", "l", "e">>
      [] str = "system" -> <<"s", "y", "s", "t", "e", "m">>
      [] str = "user" -> <<"u", "s", "e", "r">>
      [] str = "assistant" -> <<"a", "s", "s", "i", "s", "t", "a", "n", "t">>
      [] str = "[object Object]" ->
             <<"[", "o", "b", "j", "e", "c", "t", " ", "O", "b", "j", "e", "c", "t", "]">>

DigitOf(n) == CHOOSE d \in DigitChars : d = ToString(n)

\* Number.prototype.toString of a natural number
RECURSIVE NumChars(_)
NumChars(n) == IF n < 10 THEN <<DigitOf(n)>> ELSE NumChars(n \div 10) \o <<DigitOf(n % 10)>>

\* JSON.stringify's escaping of one character, as characters
JSONEscapeCharSeq(c) ==
    CASE c = "\"" -> <<"\\", "\"">>
      [] c = "\\" -> <<"\\", "\\">>
      [] c = "\n" -> <<"\\", "n">>
      [] c = "\r" -> <<"\\", "r">>
      [] c = "\t" -> <<"\\", "t">>
      [] OTHER -> <<c>>

RECURSIVE JSONEscapeSeq(_)
JSONEscapeSeq(cs) ==
    IF cs = <<>> THEN <<>> ELSE JSONEscapeCharSeq(Head(cs)) \o JSONEscapeSeq(Tail(cs))

RECURSIVE JSONText(_)
RECURSIVE JSONTextList(_, _, _)
\* the texts of items i.. joined by commas; keys, when given, prefix each
JSONTextList(keys, items, i) ==
    IF i > Len(items) THEN <<>>
    ELSE (IF i > 1 THEN <<",">> ELSE <<>>)
         \o (IF keys = <<>> THEN <<>> ELSE <<"\"">> \o JSONEscapeSeq(keys[i]) \o <<"\"", ":">>)
         \o JSONText(items[i])
         \o JSONTextList(keys, items, i + 1)

\* JSON.stringify(value): the compact text of a value
JSONText(v) ==
    CASE v.type = "string" -> <<"\"">> \o JSONEscapeSeq(v.value) \o <<"\"">>
      [] v.type = "number" -> NumChars(v.number)
      [] v.type = "null" -> Chars("null")
      [] v.type = "array" -> <<"[">> \o JSONTextList(<<>>, v.items, 1) \o <<"]">>
      [] v.type = "object" -> <<"{">> \o JSONTextList(v.keys, v.vals, 1) \o <<"}">>

\* {"text": cs}
TextPart(cs) == JObj(<<Chars("text")>>, <<JStr(cs)>>)

\* {"candidates": [{"content": {"parts": parts}}]}
CandidatesDoc(parts) ==
    JObj(<<Chars("candidates")>>,
         <<JArr(<<JObj(<<Chars("content")>>, <<JObj(<<Chars("parts")>>, <<parts>>)>>)>>)>>)

\* the same document with top-level text and response fields after it
CandidatesDocWithText(parts, text, resp) ==
    JObj(<<Chars("candidates"), Chars("text"), Chars("response")>>,
         <<JArr(<<JObj(<<Chars("content")>>, <<JObj(<<Chars("parts")>>, <<parts>>)>>)>>),
           JStr(text), JStr(resp)>>)

\* the lists of parts of the model: parts with a text, with an empty text,
\* without a text, with a number, an object or an array as text, and no part
\* at all
PartLists ==
    {<<TextPart(<<"o">>), TextPart(<<"k">>)>>,
     <<TextPart(<<"k">>), TextPart(<<"o">>)>>,
     <<TextPart(<<"o">>), JObj(<<>>, <<>>), TextPart(<<"k">>)>>,
     <<TextPart(<<>>), TextPart(<<"k">>)>>,
     <<JObj(<<Chars("text")>>, <<JNum(7)>>), TextPart(<<"k">>)>>,
     <<JObj(<<Chars("text")>>, <<JObj(<<>>, <<>>)>>)>>,
     <<JObj(<<Chars("text")>>, <<JArr(<<JStr(<<"o">>), JNum(7)>>)>>)>>,
     <<>>}

\* the documents the subprocess may print in the model
JSONDocs ==
    {JStr(<<"o", "k">>),
     JStr(<<>>),
     JObj(<<Chars("response")>>, <<JStr(<<"o", "k">>)>>),
     JObj(<<Chars("response")>>, <<JStr(<<>>)>>),
     JObj(<<Chars("text")>>, <<JStr(<<"o", "k">>)>>),
     JObj(<<Chars("text")>>, <<JStr(<<>>)>>),
     JObj(<<Chars("text"), Chars("response")>>, <<JStr(<<"o">>), JStr(<<"k">>)>>),
     JObj(<<Chars("response"), Chars("text")>>, <<JStr(<<"o">>), JStr(<<"k">>)>>),
     JObj(<<Chars("text"), Chars("response")>>, <<JStr(<<>>), JStr(<<"k">>)>>),
     JObj(<<Chars("text")>>, <<JNum(7)>>),
     JObj(<<Chars("text")>>, <<JObj(<<>>, <<>>)>>),
     JObj(<<Chars("text")>>, <<JArr(<<JStr(<<"o">>)>>)>>),
     JObj(<<Chars("response")>>, <<JNum(7)>>),
     JObj(<<Chars("response")>>, <<JObj(<<Chars("text")>>, <<JStr(<<"o">>)>>)>>),
     JObj(<<Chars("response")>>, <<JArr(<<>>)>>),
     JObj(<<Chars("text"), Chars("response")>>, <<JNum(0), JStr(<<"k">>)>>),
     JObj(<<>>, <<>>),
     JNull,
     JNum(7),
     JArr(<<>>),
     JArr(<<JStr(<<"o">>)>>),
     JObj(<<Chars("candidates")>>, <<JNull>>),
     JObj(<<Chars("candidates")>>, <<JArr(<<>>)>>),
     JObj(<<Chars("candidates")>>, <<JArr(<<JNull>>)>>),
     JObj(<<Chars("candidates")>>, <<JArr(<<JObj(<<>>, <<>>)>>)>>),
     JObj(<<Chars("candidates")>>, <<JArr(<<JObj(<<Chars("content")>>, <<JNull>>)>>)>>),
     CandidatesDoc(JNull),
     CandidatesDoc(JStr(<<"o", "k">>)),
     CandidatesDoc(JArr(<<JNull>>)),
     CandidatesDoc(JArr(<<TextPart(<<"o">>), JNull>>))}
    \cup {CandidatesDoc(JArr(parts)) : parts \in PartLists}
    \cup {CandidatesDocWithText(JArr(parts), <<"n">>, <<"o">>) : parts \in PartLists}

\* the text of each document of the model
JSONDocTexts == [d \in JSONDocs |-> JSONText(d)]

\* JSON.parse on the texts of the model: the document whose text this is, or a
\* SyntaxError
JSONParse(cs) ==
    LET hits == {d \in JSONDocs : JSONText(d) = cs}
    IN  IF hits = {} THEN [ok |-> FALSE] ELSE [ok |-> TRUE, value |-> CHOOSE d \in hits : TRUE]

\* ToBoolean
Truthy(v) ==
    CASE v.type = "undefined" -> FALSE
      [] v.type = "null" -> FALSE
      [] v.type = "string" -> v.value # <<>>
      [] v.type = "number" -> v.number # 0
      [] OTHER -> TRUE

\* whether reading a property of v throws a TypeError
Throws(v) == v.type \in {"undefined", "null"}

\* v[key] for a v that is neither null nor undefined
Get(v, key) ==
    IF v.type = "object" /\ \E i \in DOMAIN v.keys : v.keys[i] = Chars(key)
    THEN v.vals[CHOOSE i \in DOMAIN v.keys : v.keys[i] = Chars(key)]
    ELSE Undefined

\* items[0]
First(v) == IF v.items = <<>> THEN Undefined ELSE v.items[1]

IsArray(v) == v.type = "array"

\* what Array.prototype.join makes of one element
RECURSIVE JoinElement(_)
RECURSIVE JoinElements(_, _, _)
JoinElements(items, sep, i) ==
    IF i > Len(items) THEN <<>>
    ELSE (IF i > 1 THEN sep ELSE <<>>) \o JoinElement(items[i]) \o JoinElements(items, sep, i + 1)

JoinElement(v) ==
    CASE v.type \in {"undefined", "null"} -> <<>>
      [] v.type = "string" -> v.value
      [] v.type = "number" -> NumChars(v.number)
      [] v.type = "array" -> JoinElements(v.items, <<",">>, 1)
      [] v.type = "object" -> Chars("[object Object]")

----------------------------------------------------------------------------
(* Output normalisation: structured-output mode *)

\* PartsText with a defect: only the first part is read
PartsTextFirstOnly(parts) ==
    IF parts.items # <<>> /\ Truthy(Get(parts.items[1], "text"))
    THEN Get(parts.items[1], "text") ELSE JStr(<<>>)

\* candidate.content.parts.map((part) => part.text || '').join('')
PartsText(parts) ==
    LET mapped == [i \in DOMAIN parts.items |->
                      IF Truthy(Get(parts.items[i], "text"))
                      THEN Get(parts.items[i], "text") ELSE JStr(<<>>)]
    IN  JStr(JoinElements(mapped, <<>>, 1))

\* the candidates branch applies: every condition on the way to parts holds
HasCandidateParts(parsed) ==
    LET candidates == Get(parsed, "candidates")
    IN  /\ Truthy(candidates) /\ IsArray(candidates) /\ Truthy(First(candidates))
        /\ LET content == Get(First(candidates), "content")
           IN  /\ Truthy(content)
               /\ Truthy(Get(content, "parts"))
               /\ IsArray(Get(content, "parts"))

CandidateParts(parsed) == Get(Get(First(Get(parsed, "candidates")), "content"), "parts")

\* the errors the engine throws; the message texts are the engine's
SyntaxError ==
    [class |-> "SyntaxError", name |-> "SyntaxError", message |-> "Unexpected token"]
TypeError ==
    [class |-> "TypeError", name |-> "TypeError", message |-> "Cannot read properties of null"]

\* the try block of extractResponse: JSON.parse throws a SyntaxError on a text
\* that is no document, and reading a property of null throws a TypeError.
\* The value returned is a JavaScript value: the code returns parsed.text and
\* parsed.response as they are.
extractResponseTry(cleaned) ==
    LET parse == JSONParse(cleaned)
    IN  IF ~parse.ok THEN Thrown(SyntaxError)
        ELSE LET parsed == parse.value
             IN  IF parsed.type = "string" THEN Returned(parsed)
                 ELSE IF Throws(parsed) THEN Thrown(TypeError)
                 ELSE IF HasCandidateParts(parsed)
                 THEN IF \E i \in DOMAIN CandidateParts(parsed).items :
                             Throws(CandidateParts(parsed).items[i])
                      THEN Thrown(TypeError)
                      ELSE Returned(PartsText(CandidateParts(parsed)))
                 ELSE IF Truthy(Get(parsed, "text")) THEN Returned(Get(parsed, "text"))
                 ELSE IF Truthy(Get(parsed, "response")) THEN Returned(Get(parsed, "response"))
                 ELSE Returned(JStr(JSONText(parsed)))

\* extractResponseCatch with a defect: the error is thrown on
extractResponseRethrow(cleaned, error) == Thrown(error)

\* the catch block of extractResponse
extractResponseCatch(cleaned, error) == Returned(JStr(cleanOutput(cleaned)))

\* GeminiCLIAdapter.extractResponse: how the call ends
extractResponse(stdout) ==
    IF stdout = <<>> THEN Returned(JStr(<<>>))
    ELSE LET cleaned == Trim(stripAnsi(stdout))
             attempt == extractResponseTry(cleaned)
         IN  IF attempt.kind = "thrown" THEN extractResponseCatch(cleaned, attempt.error)
             ELSE attempt

----------------------------------------------------------------------------
(* The adapters *)

\* timeout: number = 30000
DefaultTimeout == 30000

\* maxBuffer: 10 * 1024 * 1024
MaxBuffer == 10 * 1024 * 1024

\* new ClaudeCodeAdapter(runtimeDir, timeout, debug)
ClaudeCodeAdapter(runtimeDir, timeout, debug) ==
    [kind |-> "claude-code", runtimeDir |-> runtimeDir, timeout |-> timeout, debug |-> debug]

\* new GeminiCLIAdapter(runtimeDir, timeout, debug, model)
GeminiCLIAdapter(runtimeDir, timeout, debug, model) ==
    [kind |-> "gemini-cli", runtimeDir |-> runtimeDir, timeout |-> timeout, debug |-> debug,
     model |-> model]

\* the adapters a server may be created with, debug mode off and on
Adapters ==
    {ClaudeCodeAdapter("/runtime/claude-code", DefaultTimeout, debug) : debug \in BOOLEAN}
    \cup
    {GeminiCLIAdapter("/runtime/gemini-cli", DefaultTimeout, debug, "gemini-2.5-flash") :
         debug \in BOOLEAN}

\* commonOpts with a defect: every execute doubles the timeout the adapter
\* is configured with
commonOptsDoubling(a) ==
    [cwd |-> a.runtimeDir,
     timeout |-> IF executeCalls = 0 THEN a.timeout ELSE 2 * a.timeout,
     maxBuffer |-> MaxBuffer]

\* commonOpts with a defect: the timeout is not passed on
commonOptsNoTimeout(a) == [cwd |-> a.runtimeDir, timeout |-> 0, maxBuffer |-> MaxBuffer]

\* commonOpts
commonOpts(a) == [cwd |-> a.runtimeDir, timeout |-> a.timeout, maxBuffer |-> MaxBuffer]

\* Invocation with a defect: Claude's user prompt is passed after -p in argv
\* and nothing is written to the child's standard input
InvocationPromptInArgv(a, ms) ==
    IF a.kind = "claude-code"
    THEN LET cmd == buildClaudeCodeCommand(ms)
         IN  [file |-> "claude",
              args |-> <<"--system-prompt", cmd.systemPrompt, "-p", cmd.userPrompt>>,
              options |-> commonOpts(a),
              stdin |-> <<>>,
              stdinEnded |-> FALSE]
    ELSE LET prompt == buildGeminiPrompt(ms)
         IN  [file |-> "gemini",
              args |-> (IF a.model # "" THEN <<"-m", a.model>> ELSE <<>>)
                           \o <<"-p", prompt, "--output-format", "json">>,
              options |-> commonOpts(a),
              stdin |-> <<>>,
              stdinEnded |-> FALSE]

\* the execFile call of execute, with what is written to the child's standard
\* input.  Claude: argv carries the system prompt and the user prompt is
\* written to stdin, which is then ended.  Gemini: the prompt is an argv
\* element, after -m <model> when a model is set.
Invocation(a, ms) ==
    IF a.kind = "claude-code"
    THEN LET cmd == buildClaudeCodeCommand(ms)
         IN  [file |-> "claude",
              args |-> <<"--system-prompt", cmd.systemPrompt, "-p">>,
              options |-> commonOpts(a),
              stdin |-> <<cmd.userPrompt>>,
              stdinEnded |-> TRUE]
    ELSE LET prompt == buildGeminiPrompt(ms)
         IN  [file |-> "gemini",
              args |-> (IF a.model # "" THEN <<"-m", a.model>> ELSE <<>>)
                           \o <<"-p", prompt, "--output-format", "json">>,
              options |-> commonOpts(a),
              stdin |-> <<>>,
              stdinEnded |-> FALSE]

\* execFileCalls with a defect: a second, fallback invocation is made
execFileCallsWithFallback(a, ms) == <<Invocation(a, ms), Invocation(a, ms)>>

\* the execFile calls one execute makes, in order: there is one
execFileCalls(a, ms) == <<Invocation(a, ms)>>

NoChild == [file |-> "none"]

\* a running subprocess: the call that spawned it, whether the timeout has sent
\* it the kill signal, and whether it is one that never exits on its own
Process(call, hangs) == [call |-> call, killSent |-> FALSE, hangs |-> hangs]

\* child_process arms the timer only for a positive timeout option
TimerArmed(c) == c.call.options.timeout > 0

----------------------------------------------------------------------------
(* What execFile reports to its callback: (err, stdout, stderr) *)

NoError == [class |-> "none"]

\* an error made by child_process; killed and signal are false and null on
\* errors that do not carry them
ExecError(message, code, killed, signal) ==
    [class |-> "Error", name |-> "Error", message |-> message, code |-> code,
     killed |-> killed, signal |-> signal]

\* what the subprocess may have printed when it ends
Stdouts == {<<>>, <<" ", "o", "k", "\n">>, JSONText(JObj(<<Chars("response")>>, <<JStr(<<"o", "k">>)>>))}

PartialStdouts == {<<>>, <<"o", "k">>}

Stderr == <<"b", "o", "o", "m">>

\* the reports execFile can make for the process c
ExecFileResults(c) ==
    \* the process exits by itself with code 0: no error, whether or not the
    \* kill was already sent
    (IF c.hangs THEN {}
     ELSE {[err |-> NoError, stdout |-> out, stderr |-> <<>>] : out \in Stdouts})
    \cup
    \* the process exits by itself with a code other than 0, or another
    \* process sends it SIGTERM; killed tells whether this process had sent
    \* its kill signal
    (IF c.hangs THEN {}
     ELSE {[err |-> ExecError("Command failed", "1", c.killSent, "null"),
            stdout |-> <<>>, stderr |-> Stderr],
           [err |-> ExecError("Command failed", "null", c.killSent, "SIGTERM"),
            stdout |-> <<>>, stderr |-> Stderr]})
    \cup
    \* the file cannot be spawned
    (IF c.hangs \/ c.killSent THEN {}
     ELSE {[err |-> ExecError("spawn ENOENT", "ENOENT", FALSE, "null"),
            stdout |-> <<>>, stderr |-> <<>>]})
    \cup
    \* the timeout's SIGTERM ends the process, after any output it had made
    (IF ~c.killSent THEN {}
     ELSE {[err |-> ExecError("Command failed", "null", TRUE, "SIGTERM"),
            stdout |-> out, stderr |-> Stderr] : out \in PartialStdouts})

NoResult == [err |-> [class |-> "pending"]]

----------------------------------------------------------------------------
(* execute: how the call settles once execFile has reported *)

\* new TimeoutError(message) of the adapter's own module
TimeoutError(a) ==
    IF a.kind = "claude-code"
    THEN [class |-> "claude_code.TimeoutError", name |-> "TimeoutError",
          message |-> "Claude Code execution timed out"]
    ELSE [class |-> "gemini_cli.TimeoutError", name |-> "TimeoutError",
          message |-> "Gemini CLI execution timed out"]

\* IsTimeoutKill with a defect: the wrong signal is tested
IsTimeoutKillWrongSignal(err) == err.killed /\ err.signal = "SIGKILL"

\* error.killed && error.signal === 'SIGTERM'
IsTimeoutKill(err) == err.killed /\ err.signal = "SIGTERM"

\* the error the callback rejects with: err with stderr attached
Rejection(res) == res.err @@ [stderr |-> res.stderr]

\* summarize(text, max): runs of whitespace become one space, the ends are
\* trimmed, and a text longer than max is cut to max characters and an
\* ellipsis; the result as a sequence of characters
summarize(text, max) ==
    LET n == Len(text)
        last == IF n = 0 \/ SubSeq(text, n, n) \notin {" ", "\n", "\r", "\t"} THEN n
                ELSE MaxIn({0} \cup {i \in 1..n : SubSeq(text, i, i) \notin {" ", "\n", "\r", "\t"}})
        Clean(m) ==
            LET cs == [i \in 1..m |-> SubSeq(text, i, i)]
                ws == [i \in 1..m |-> cs[i] \in {" ", "\n", "\r", "\t"}]
                kept(i) == IF ws[i] THEN i > 1 /\ ~ws[i - 1] /\ i < last ELSE TRUE
                clean == SelectSeq([i \in 1..m |-> i], kept)
            IN  [k \in 1..Len(clean) |-> IF ws[clean[k]] THEN " " ELSE cs[clean[k]]]
        near == Clean(MinOf(n, 2 * max + 2))
        clean == IF Len(near) > max \/ n <= 2 * max + 2 THEN near ELSE Clean(n)
    IN  IF Len(clean) > max THEN SubSeq(clean, 1, max) \o <<"U+2026">> ELSE clean

\* console.log and console.warn calls: the label they print first, and for
\* console.log the text that follows it
Log(label, text) == [level |-> "log", label |-> label, text |-> text]
Warn(label) == [level |-> "warn", label |-> label]

\* debugBeforeSpawn with a defect: only summaries of the prompts are written
debugBeforeSpawnSummaries(a, ms) ==
    IF ~a.debug THEN <<>>
    ELSE IF a.kind = "claude-code"
    THEN LET cmd == buildClaudeCodeCommand(ms)
         IN  <<[level |-> "log", label |-> "[DEBUG] Exec command (stdin mode):",
                text |-> "claude --system-prompt "
                             \o JSONQuote(summarize(cmd.systemPrompt, 80)) \o " -p"],
               [level |-> "log", label |-> "[DEBUG] Prompt (stdin):",
                text |-> JSONQuote(summarize(cmd.userPrompt, 80))]>>
    ELSE <<[level |-> "log", label |-> "[DEBUG] Gemini Prompt:",
            text |-> Str(summarize(buildGeminiPrompt(ms), 200))],
           [level |-> "log", label |-> "[DEBUG] Exec command:",
            text |-> "gemini <prompt> --output-format json"]>>

\* what execute writes to the console before the subprocess is spawned
debugBeforeSpawn(a, ms) ==
    IF ~a.debug THEN <<>>
    ELSE IF a.kind = "claude-code"
    THEN LET cmd == buildClaudeCodeCommand(ms)
         IN  <<Log("[DEBUG] System Prompt:", cmd.systemPrompt),
               Log("[DEBUG] User Prompt:", cmd.userPrompt),
               Log("[DEBUG] Exec command (stdin mode):",
                   "claude --system-prompt "
                       \o JSONQuote(summarize(cmd.systemPrompt, 80)) \o " -p"),
               Log("[DEBUG] Prompt (stdin):", JSONQuote(summarize(cmd.userPrompt, 80)))>>
    ELSE LET prompt == buildGeminiPrompt(ms)
             shown == (IF a.model # "" THEN <<"-m", a.model>> ELSE <<>>) \o <<"-p", prompt>>
         IN  <<Log("[DEBUG] Gemini Prompt:", Str(summarize(prompt, 200))),
               Log("[DEBUG] Exec command:",
                   "gemini " \o JoinStr(shown, " ") \o " <prompt> --output-format json")>>

\* what execute writes to the console once execFile has reported; the
\* duration is not measured
debugAfterReport(a, res) ==
    IF ~a.debug THEN <<>>
    ELSE IF res.err = NoError
    THEN <<Log("[DEBUG] Raw Output:", Str(res.stdout)),
           Log("[DEBUG] Duration (ms):", "Date.now() - t0")>>
    ELSE IF IsTimeoutKill(Rejection(res)) THEN <<>>
    ELSE <<Warn("[DEBUG] Invocation failed. stderr:")>>

\* executeSettle with a defect: in debug mode the raw output is returned
executeSettleRawInDebug(a, res) ==
    IF res.err = NoError
    THEN IF a.debug THEN Returned(JStr(res.stdout))
         ELSE IF a.kind = "claude-code" THEN Returned(JStr(cleanOutput(res.stdout)))
         ELSE extractResponse(res.stdout)
    ELSE IF IsTimeoutKill(Rejection(res)) THEN Thrown(TimeoutError(a))
    ELSE Thrown(Rejection(res))

\* the rest of execute after the await: the try block's return and the catch;
\* an error thrown inside the try block by the output normaliser reaches the
\* same catch, which throws it on: it carries no killed flag
executeSettle(a, res) ==
    IF res.err = NoError
    THEN IF a.kind = "claude-code" THEN Returned(JStr(cleanOutput(res.stdout)))
         ELSE extractResponse(res.stdout)
    ELSE IF IsTimeoutKill(Rejection(res)) THEN Thrown(TimeoutError(a))
    ELSE Thrown(Rejection(res))

----------------------------------------------------------------------------
(* The HTTP layer: POST /v1/chat/completions *)

User(c) == [role |-> "user", content |-> c]
Assistant(c) == [role |-> "assistant", content |-> c]
System(c) == [role |-> "system", content |-> c]

\* the bodies a client may post: messages missing, not an array, an empty
\* array, and arrays of messages; model "" stands for a body without a model,
\* Undefined for a field the body does not have
RequestBodies ==
    {[model |-> "mock-model", messages |-> Undefined,
      temperature |-> Undefined, max_tokens |-> Undefined, stream |-> Undefined],
     [model |-> "mock-model", messages |-> JStr(<<"n", "o">>),
      temperature |-> Undefined, max_tokens |-> Undefined, stream |-> Undefined],
     [model |-> "mock-model", messages |-> JArr(<<>>),
      temperature |-> Undefined, max_tokens |-> Undefined, stream |-> Undefined],
     [model |-> "", messages |-> JArr(<<System(<<"s">>)>>),
      temperature |-> Undefined, max_tokens |-> Undefined, stream |-> Undefined],
     [model |-> "mock-model",
      messages |-> JArr(<<System(<<"s">>), User(<<"a">>), Assistant(<<"b">>), User(<<"c">>)>>),
      temperature |-> Undefined, max_tokens |-> Undefined, stream |-> Undefined]}

\* bodies with the same messages and different model, temperature, max_tokens
\* and stream
OptionBodies ==
    {[model |-> "mock-model",
      messages |-> JArr(<<System(<<"s">>), User(<<"a">>), Assistant(<<"b">>), User(<<"c">>)>>),
      temperature |-> Undefined, max_tokens |-> Undefined, stream |-> Undefined],
     [model |-> "",
      messages |-> JArr(<<System(<<"s">>), User(<<"a">>), Assistant(<<"b">>), User(<<"c">>)>>),
      temperature |-> JNum(0), max_tokens |-> JNum(16),
      stream |-> [type |-> "boolean", bool |-> TRUE]]}

NoBody == [model |-> "", messages |-> [type |-> "none"]]

ErrorResponse(status, message, type, code) ==
    [status |-> status, body |-> [error |-> [message |-> message, type |-> type, code |-> code]]]

NoResponse == [status |-> 0]

\* Validate with a defect: the check for an empty array is missing
ValidateNoEmptyCheck(request) ==
    IF ~Truthy(request.messages) \/ ~IsArray(request.messages)
    THEN ErrorResponse(400, "Invalid request: messages array is required",
                       "invalid_request_error", "invalid_request")
    ELSE NoResponse

\* the two validation checks; the response each sends, NoResponse when the
\* request passes
Validate(request) ==
    IF ~Truthy(request.messages) \/ ~IsArray(request.messages)
    THEN ErrorResponse(400, "Invalid request: messages array is required",
                       "invalid_request_error", "invalid_request")
    ELSE IF Len(request.messages.items) = 0
    THEN ErrorResponse(400, "Invalid request: messages array cannot be empty",
                       "invalid_request_error", "invalid_request")
    ELSE NoResponse

\* getModelName with a defect: every adapter reports the same name
getModelNameShared(a) == "cli-agent"

\* getModelName(): both adapters report their own name
getModelName(a) == a.kind

\* JSON.stringify(request.messages)
MessagesText(ms) ==
    JSONText(JArr([i \in DOMAIN ms |->
                      JObj(<<Chars("role"), Chars("content")>>,
                           <<JStr(Chars(ms[i].role)), JStr(ms[i].content)>>)]))

\* text.length of a value: undefined unless the value is a string
LengthOf(v) == IF v.type = "string" THEN JNum(Len(v.value)) ELSE Undefined

\* Math.ceil(text.length / 4); NaN when text has no length
estimateTokens(v) ==
    LET length == LengthOf(v)
    IN  IF length.type = "number" THEN JNum((length.number + 3) \div 4) ELSE [type |-> "NaN"]

\* the HTTP response to a request whose adapter.execute returned content; the
\* generated id and the creation time are left out
ChatCompletionResponse(a, request, content) ==
    LET serialized == MessagesText(request.messages.items)
    IN  [status |-> 200,
         body |->
           [object |-> "chat.completion",
            model |-> IF request.model # "" THEN request.model ELSE getModelName(a),
            choices |-> <<[index |-> 0,
                           message |-> [role |-> "assistant", content |-> content],
                           finish_reason |-> "stop"]>>,
            usage |->
              [prompt_tokens |-> estimateTokens(JStr(serialized)),
               completion_tokens |-> estimateTokens(content),
               total_tokens |-> estimateTokens(JStr(serialized \o JoinElement(content)))]]]

\* error instanceof TimeoutError, with TimeoutError the class server.ts imports
\* from ./adapters/claude_code
InstanceOfTimeoutError(error) == error.class = "claude_code.TimeoutError"

\* InternalErrorMessage with a defect: the error's own message is dropped
InternalErrorMessageFixed(error) == "Internal server error"

\* error.message || 'Internal server error'
InternalErrorMessage(error) ==
    IF error.message # "" THEN error.message ELSE "Internal server error"

\* the catch block of the handler
CatchResponse(error) ==
    IF InstanceOfTimeoutError(error)
    THEN ErrorResponse(504, error.message, "timeout_error", "timeout")
    ELSE ErrorResponse(500, InternalErrorMessage(error), "internal_error", "internal_error")

\* Respond with a defect: the content is taken from a field that the requests
\* share, which holds what execute returned for some request
RespondShared(a, request, out) ==
    LET returned == {q \in Reqs : outcome[q].kind = "returned"}
    IN  IF out.kind = "returned"
        THEN ChatCompletionResponse(a, request,
                 IF returned # {} THEN outcome[CHOOSE q \in returned : TRUE].value
                 ELSE out.value)
        ELSE CatchResponse(out.error)

\* the handler after the await on adapter.execute
Respond(a, request, out) ==
    IF out.kind = "returned" THEN ChatCompletionResponse(a, request, out.value)
    ELSE CatchResponse(out.error)

\* what execute writes to the console before the subprocess is spawned, for
\* each adapter and each body that passes validation
ConsoleBeforeSpawn ==
    [a \in Adapters |->
        [request \in {b \in RequestBodies \cup OptionBodies : Validate(b) = NoResponse} |->
            debugBeforeSpawn(a, request.messages.items)]]

----------------------------------------------------------------------------
(* AdapterFactory *)

\* new Error(message)
NewError(message) == [class |-> "Error", name |-> "Error", message |-> message]

\* the configurations AdapterFactory.create may be given: the three declared
\* types and types that are not declared; model "" stands for no model
AdapterConfigs ==
    [type : {"claude-code", "codex", "gemini-cli", "unknown", "my-agent"},
     runtimeDir : {"/runtime/claude-code", "/test/runtime"},
     timeout : {DefaultTimeout, 2 * DefaultTimeout},
     debug : BOOLEAN,
     model : {"", "haiku", "gemini-2.5-flash"}]

NoConfig == [type |-> "none"]

\* UnknownAdapterType with a defect: the message leaves the type out
UnknownAdapterTypeUnnamed(cfg) == Thrown(NewError("Unknown adapter type"))

\* the default branch of the switch
UnknownAdapterType(cfg) == Thrown(NewError("Unknown adapter type: " \o cfg.type))

\* AdapterFactory.create.  The ClaudeCodeAdapter constructor takes three
\* parameters: the model passed as a fourth argument is dropped.
AdapterFactoryCreate(cfg) ==
    CASE cfg.type = "claude-code" ->
             Returned(ClaudeCodeAdapter(cfg.runtimeDir, cfg.timeout, cfg.debug))
      [] cfg.type = "codex" -> Thrown(NewError("Codex adapter not yet implemented"))
      [] cfg.type = "gemini-cli" -> Thrown(NewError("Gemini CLI adapter not yet implemented"))
      [] OTHER -> UnknownAdapterType(cfg)

\* getName()
getName(a) == a.kind

\* nothing was given to the factory alone
FactoryIdle ==
    /\ config = NoConfig
    /\ created = NoOutcome

----------------------------------------------------------------------------
(* The output normalisers alone *)

\* the characters of the subprocess outputs that are tried exhaustively
OutputAlphabet == {"\r", "\n", " ", "[", "]", "U+280B", "m", ESC}

\* ESC [ m, the shortest colour sequence
ColourReset == <<ESC, "[", "m">>

\* a document as the CLI prints it: bare, followed by a newline, or coloured
DocOutputs ==
    {JSONDocTexts[d] : d \in JSONDocs}
    \cup {JSONDocTexts[d] \o <<"\n">> : d \in JSONDocs}
    \cup {ColourReset \o JSONDocTexts[d] \o ColourReset \o <<"\n">> : d \in JSONDocs}

NoOutput == <<"none">>

\* nothing was given to the output normalisers alone
NormaliserIdle ==
    /\ raw = NoOutput
    /\ normalized = NoOutcome

----------------------------------------------------------------------------
(* isAvailable *)

\* { timeout: 5000 }
ProbeTimeout == 5000

\* ProbeOptions with a defect: the probe runs under the adapter's timeout
ProbeOptionsOfAdapter(a) == [timeout |-> a.timeout]

\* the options of every probe
ProbeOptions(a) == [timeout |-> ProbeTimeout]

\* the execFile calls isAvailable may make, in order: the next one is made
\* only when the one before it was rejected
ProbeCalls(a) ==
    IF a.kind = "claude-code"
    THEN <<[file |-> "claude", args |-> <<"--version">>, options |-> ProbeOptions(a)]>>
    ELSE <<[file |-> "gemini", args |-> <<"--version">>, options |-> ProbeOptions(a)],
           [file |-> "gemini", args |-> <<"-p", "hello">>, options |-> ProbeOptions(a)]>>

\* what the promisified execFile can settle with: resolved (exit code 0), or
\* rejected because the file is missing, the exit code is not 0, or the
\* probe's timeout killed the process
ProbeReports ==
    {[err |-> NoError],
     [err |-> ExecError("spawn ENOENT", "ENOENT", FALSE, "null")],
     [err |-> ExecError("Command failed", "1", FALSE, "null")],
     [err |-> ExecError("Command failed", "null", TRUE, "SIGTERM")]}

ProbeIdle == probe = [pc |-> "idle", made |-> <<>>, reports |-> <<>>, result |-> NoOutcome]

\* isAvailable after the await of a probe: return true, try the next probe in
\* the catch block, or return false
isAvailableSettle(a, p, report) ==
    LET reports == Append(p.reports, report)
    IN  IF report.err = NoError
        THEN [pc |-> "done", made |-> p.made, reports |-> reports, result |-> Returned(TRUE)]
        ELSE IF Len(p.made) < Len(ProbeCalls(a))
        THEN [pc |-> "probing", made |-> Append(p.made, ProbeCalls(a)[Len(p.made) + 1]),
              reports |-> reports, result |-> NoOutcome]
        ELSE [pc |-> "done", made |-> p.made, reports |-> reports, result |-> Returned(FALSE)]

----------------------------------------------------------------------------
(* The command-line entry point *)

\* main() has not run: no exit code, no signal handlers, no request accepted
MainIdle == main = [pc |-> "start", code |-> 0, handlers |-> FALSE, accepted |-> 0]

\* mainAfterProbe with a defect: the check of the probe's result is missing
mainAfterProbeUnchecked(m, result) ==
    IF result = NoOutcome THEN m ELSE [m EXCEPT !.pc = "binding", !.handlers = TRUE]

\* main() after the await of isAvailable: process.exit(1) when the result is
\* false; createServer, app.listen and process.on when it is true
mainAfterProbe(m, result) ==
    IF result = NoOutcome THEN m
    ELSE IF result = Returned(TRUE) THEN [m EXCEPT !.pc = "binding", !.handlers = TRUE]
    ELSE [m EXCEPT !.pc = "exited", !.code = 1]

----------------------------------------------------------------------------
(* The state machine of the server *)

ServerIdle ==
    /\ pc = [r \in Reqs |-> "idle"]
    /\ body = [r \in Reqs |-> NoBody]
    /\ child = [r \in Reqs |-> NoChild]
    /\ cb = [r \in Reqs |-> NoResult]
    /\ outcome = [r \in Reqs |-> NoOutcome]
    /\ response = [r \in Reqs |-> NoResponse]
    /\ executeCalls = 0
    /\ spawned = 0
    /\ console = [r \in Reqs |-> <<>>]

\* nothing was given to the prompt builder alone
BuilderIdle ==
    /\ messages = <<>>
    /\ built = [kind |-> "none"]

Init ==
    /\ adapter \in Adapters
    /\ ServerIdle
    /\ BuilderIdle
    /\ FactoryIdle
    /\ NormaliserIdle
    /\ ProbeIdle
    /\ MainIdle

\* A request arrives, its body one of bodies.  The handler validates it and
\* either answers 400 or calls adapter.execute, which builds the prompt and
\* spawns the subprocess before its first await.
Post(r, bodies) ==
    /\ pc[r] = "idle"
    /\ \E request \in bodies, hangs \in BOOLEAN :
         /\ body' = [body EXCEPT ![r] = request]
         /\ IF Validate(request) # NoResponse
            THEN /\ pc' = [pc EXCEPT ![r] = "rejected"]
                 /\ response' = [response EXCEPT ![r] = Validate(request)]
                 /\ UNCHANGED <<child, executeCalls, spawned, console>>
            ELSE LET calls == execFileCalls(adapter, request.messages.items)
                 IN  /\ pc' = [pc EXCEPT ![r] = "running"]
                     /\ executeCalls' = executeCalls + 1
                     /\ spawned' = spawned + Len(calls)
                     /\ child' = [child EXCEPT ![r] = Process(calls[Len(calls)], hangs)]
                     /\ console' = [console EXCEPT ![r] = ConsoleBeforeSpawn[adapter][request]]
                     /\ UNCHANGED response
    /\ UNCHANGED <<adapter, cb, outcome, builderVars, factoryVars, normaliserVars, probe, main>>
\* The timeout of the execFile call elapses: child_process sends the kill
\* signal (SIGTERM) to the subprocess.
TimerFire(r) ==
    /\ pc[r] = "running"
    /\ TimerArmed(child[r])
    /\ ~child[r].killSent
    /\ child' = [child EXCEPT ![r].killSent = TRUE]
    /\ UNCHANGED <<adapter, pc, body, cb, outcome, response, executeCalls, spawned, console,
                   builderVars, factoryVars, normaliserVars, probe, main>>

\* execFile reports res for the subprocess of request r: execute settles and
\* the handler sends the response.
Finish(r, res) ==
    LET out == executeSettle(adapter, res)
    IN  /\ cb' = [cb EXCEPT ![r] = res]
        /\ outcome' = [outcome EXCEPT ![r] = out]
        /\ response' = [response EXCEPT ![r] = Respond(adapter, body[r], out)]
        /\ pc' = [pc EXCEPT ![r] = "done"]
        /\ console' = [console EXCEPT ![r] = @ \o debugAfterReport(adapter, res)]
        /\ UNCHANGED <<adapter, body, child, executeCalls, spawned,
                       builderVars, factoryVars, normaliserVars, probe, main>>

\* The subprocess ends, or could not be spawned.
ChildClose(r) ==
    /\ pc[r] = "running"
    /\ \E res \in ExecFileResults(child[r]) : Finish(r, res)

\* The subprocess that was sent the timeout's SIGTERM ends by it.
KilledClose(r) ==
    /\ pc[r] = "running"
    /\ child[r].killSent
    /\ \E res \in ExecFileResults(child[r]) :
         /\ res.err.class = "Error" /\ res.err.killed /\ res.err.signal = "SIGTERM"
         /\ Finish(r, res)

Next == \E r \in Reqs : Post(r, RequestBodies) \/ TimerFire(r) \/ ChildClose(r)

Spec == Init /\ [][Next]_vars

\* The timer fires when its time has elapsed, and a process that was sent
\* SIGTERM by it ends.
FairSpec == Spec /\ \A r \in Reqs : WF_vars(TimerFire(r)) /\ WF_vars(KilledClose(r))

----------------------------------------------------------------------------
(* The server, its requests numbered in the order in which they arrive *)

\* The requests are numbered in the order in which they arrive: request r
\* arrives when those before it have arrived.
Arrive(r) ==
    /\ \A q \in 1..(r - 1) : pc[q] # "idle"
    /\ Post(r, RequestBodies)

SpecOrder == Init /\ [][\E r \in Reqs : Arrive(r) \/ TimerFire(r) \/ ChildClose(r)]_vars

----------------------------------------------------------------------------
(* The server, on requests that differ only in their optional fields *)

\* A request arrives: its messages are those of every other request, its
\* model, temperature, max_tokens and stream are not.
PostOptions(r) == Post(r, OptionBodies)

SpecOptions == Init /\ [][\E r \in Reqs : PostOptions(r) \/ TimerFire(r) \/ ChildClose(r)]_vars

----------------------------------------------------------------------------
(* The prompt builders alone, on every message list up to MaxMsgs *)

BuilderContents == {<<>>, <<"a">>, <<"b", "\"", "\n">>}

BuilderMessages == [role : Roles, content : BuilderContents]

RECURSIVE ListsUpTo(_, _)
ListsUpTo(S, n) ==
    IF n = 0 THEN {<<>>}
    ELSE LET shorter == ListsUpTo(S, n - 1)
         IN  shorter \cup {Append(l, x) : l \in {k \in shorter : Len(k) = n - 1}, x \in S}

\* the lists execute can be called with: validation lets no empty list pass
MessageLists == ListsUpTo(BuilderMessages, MaxMsgs) \ {<<>>}

InitBuild ==
    /\ adapter \in Adapters
    /\ ServerIdle
    /\ messages \in MessageLists
    /\ built = [kind |-> "none"]
    /\ FactoryIdle
    /\ NormaliserIdle
    /\ ProbeIdle
    /\ MainIdle

\* execute's first statement: the adapter builds its prompt from the messages
Build ==
    /\ built.kind = "none"
    /\ built' = IF adapter.kind = "claude-code"
                THEN [kind |-> "claude-code"] @@ buildClaudeCodeCommand(messages)
                ELSE [kind |-> "gemini-cli", prompt |-> buildGeminiPrompt(messages)]
    /\ UNCHANGED <<serverVars, messages, factoryVars, normaliserVars, probe, main>>

SpecBuild == InitBuild /\ [][Build]_vars

----------------------------------------------------------------------------
(* AdapterFactory.create alone, on every configuration of the model *)

InitFactory ==
    /\ adapter \in Adapters
    /\ ServerIdle
    /\ BuilderIdle
    /\ config \in AdapterConfigs
    /\ created = NoOutcome
    /\ NormaliserIdle
    /\ ProbeIdle
    /\ MainIdle

\* the one call of AdapterFactory.create: it returns or throws before the
\* caller goes on
Create ==
    /\ created = NoOutcome
    /\ created' = AdapterFactoryCreate(config)
    /\ UNCHANGED <<serverVars, builderVars, config, normaliserVars, probe, main>>

SpecFactory == InitFactory /\ [][Create]_vars

----------------------------------------------------------------------------
(* The output normalisers alone, on every output up to MaxOut characters and *)
(* on the documents of the model                                             *)

RawOutputs == ListsUpTo(OutputAlphabet, MaxOut) \cup DocOutputs

InitOutput ==
    /\ adapter \in Adapters
    /\ ServerIdle
    /\ BuilderIdle
    /\ FactoryIdle
    /\ raw \in RawOutputs
    /\ normalized = NoOutcome
    /\ ProbeIdle
    /\ MainIdle

\* this.cleanOutput(stdout), the plain-text mode of either adapter
CleanOutput ==
    /\ normalized = NoOutcome
    /\ normalized' = [by |-> "cleanOutput"] @@ Returned(JStr(cleanOutput(raw)))
    /\ UNCHANGED <<serverVars, builderVars, factoryVars, raw, probe, main>>

\* this.extractResponse(stdout), the structured-output mode of the Gemini adapter
ExtractResponse ==
    /\ normalized = NoOutcome
    /\ adapter.kind = "gemini-cli"
    /\ normalized' = [by |-> "extractResponse"] @@ extractResponse(raw)
    /\ UNCHANGED <<serverVars, builderVars, factoryVars, raw, probe, main>>

NextOutput == CleanOutput \/ ExtractResponse

SpecOutput == InitOutput /\ [][NextOutput]_vars

----------------------------------------------------------------------------
(* isAvailable alone, on adapters of several configured timeouts *)

ProbedAdapters ==
    {ClaudeCodeAdapter("/runtime/claude-code", timeout, debug) :
         timeout \in {ProbeTimeout, DefaultTimeout, 2 * DefaultTimeout}, debug \in BOOLEAN}
    \cup
    {GeminiCLIAdapter("/runtime/gemini-cli", timeout, debug, "gemini-2.5-flash") :
         timeout \in {ProbeTimeout, DefaultTimeout, 2 * DefaultTimeout}, debug \in BOOLEAN}

InitProbe ==
    /\ adapter \in ProbedAdapters
    /\ ServerIdle
    /\ BuilderIdle
    /\ FactoryIdle
    /\ NormaliserIdle
    /\ ProbeIdle
    /\ MainIdle

\* isAvailable is called: the first probe is spawned
ProbeStart ==
    /\ probe.pc = "idle"
    /\ probe' = [probe EXCEPT !.pc = "probing", !.made = <<ProbeCalls(adapter)[1]>>]
    /\ UNCHANGED <<serverVars, builderVars, factoryVars, normaliserVars, main>>

\* execFile settles the probe that is running
ProbeReport ==
    /\ probe.pc = "probing"
    /\ \E report \in ProbeReports : probe' = isAvailableSettle(adapter, probe, report)
    /\ UNCHANGED <<serverVars, builderVars, factoryVars, normaliserVars, main>>

NextProbe == ProbeStart \/ ProbeReport

SpecProbe == InitProbe /\ [][NextProbe]_vars

----------------------------------------------------------------------------
(* The command-line entry point, on every configuration *)

InitMain ==
    /\ adapter = [kind |-> "none"]
    /\ ServerIdle
    /\ BuilderIdle
    /\ config \in AdapterConfigs
    /\ created = NoOutcome
    /\ NormaliserIdle
    /\ ProbeIdle
    /\ MainIdle

\* main() up to its first await: AdapterFactory.create, then process.exit(1)
\* in the catch block or the call of isAvailable, which spawns the first probe
MainCreate ==
    /\ main.pc = "start"
    /\ created' = AdapterFactoryCreate(config)
    /\ IF created'.kind = "thrown"
       THEN /\ main' = [main EXCEPT !.pc = "exited", !.code = 1]
            /\ UNCHANGED probe
       ELSE /\ main' = [main EXCEPT !.pc = "probing"]
            /\ probe' = [probe EXCEPT !.pc = "probing",
                                      !.made = <<ProbeCalls(created'.value)[1]>>]
    /\ UNCHANGED <<serverVars, builderVars, config, normaliserVars>>

\* execFile settles the probe that is running; when isAvailable returns, main()
\* runs to its end
MainProbeReport ==
    /\ main.pc = "probing"
    /\ \E report \in ProbeReports : probe' = isAvailableSettle(created.value, probe, report)
    /\ main' = mainAfterProbe(main, probe'.result)
    /\ adapter' = IF main'.pc = "binding" THEN created.value ELSE adapter
    /\ UNCHANGED <<pc, body, child, cb, outcome, response, executeCalls, spawned, console,
                   builderVars, factoryVars, normaliserVars>>

\* app.listen settles: the callback runs, or the server emits 'error' (the port
\* is in use), which nothing handles
MainListening ==
    /\ main.pc = "binding"
    /\ \E bound \in BOOLEAN :
         main' = IF bound THEN [main EXCEPT !.pc = "listening"]
                 ELSE [main EXCEPT !.pc = "exited", !.code = 1]
    /\ UNCHANGED <<serverVars, builderVars, factoryVars, normaliserVars, probe>>

\* the listening server accepts a request
MainAccept ==
    /\ main.pc = "listening"
    /\ main.accepted < MaxReq
    /\ main' = [main EXCEPT !.accepted = @ + 1]
    /\ UNCHANGED <<serverVars, builderVars, factoryVars, normaliserVars, probe>>

\* SIGINT or SIGTERM is delivered: process.exit(0) in the handlers once
\* process.on has registered them, the default disposition before
MainSignal ==
    /\ main.pc \in {"probing", "binding", "listening"}
    /\ main' = IF main.handlers THEN [main EXCEPT !.pc = "exited", !.code = 0]
               ELSE [main EXCEPT !.pc = "killed"]
    /\ UNCHANGED <<serverVars, builderVars, factoryVars, normaliserVars, probe>>

SpecMain ==
    InitMain /\ [][MainCreate \/ MainProbeReport \/ MainListening \/ MainAccept \/ MainSignal]_vars

----------------------------------------------------------------------------
(* Properties of the server and the adapters, checked under Spec *)

Executed(r) == pc[r] \in {"running", "done"}

\* execFile reported an error that carries killed = true and signal = SIGTERM
KilledByTimeout(r) ==
    /\ pc[r] = "done"
    /\ cb[r].err.class = "Error"
    /\ cb[r].err.killed
    /\ cb[r].err.signal = "SIGTERM"

ThrewTimeout(r) ==
    /\ outcome[r].kind = "thrown"
    /\ outcome[r].error.name = "TimeoutError"
    /\ outcome[r].error.class \in {"claude_code.TimeoutError", "gemini_cli.TimeoutError"}

\* C1: with either adapter, when the subprocess was killed by the timeout (the
\* error has killed = true and signal = SIGTERM), execute fails with the
\* adapter's TimeoutError: it neither rethrows the generic error nor returns
\* text, whatever the subprocess had printed.
C1_TimeoutKillIsTimeoutError ==
    \A r \in Reqs :
        KilledByTimeout(r) =>
            /\ ThrewTimeout(r)
            /\ outcome[r].error.message
                   = (IF adapter.kind = "claude-code" THEN "Claude Code execution timed out"
                      ELSE "Gemini CLI execution timed out")

\* a subprocess killed by the timeout after it had printed something
C1_Witness ==
    \E r \in Reqs : KilledByTimeout(r) /\ cb[r].stdout # <<>> /\ ThrewTimeout(r)

\* C2: whichever adapter the server was created with, a request whose execute
\* failed with that adapter's TimeoutError is answered 504 with type
\* 'timeout_error' and code 'timeout', never 500.
C2_TimeoutIs504 ==
    \A r \in Reqs :
        (pc[r] = "done" /\ ThrewTimeout(r)) =>
            /\ response[r].status = 504
            /\ response[r].body.error.type = "timeout_error"
            /\ response[r].body.error.code = "timeout"

\* execFile reported an error that is not a timeout kill
FailedWithoutTimeout(r) ==
    /\ pc[r] = "done"
    /\ cb[r].err.class = "Error"
    /\ ~(cb[r].err.killed /\ cb[r].err.signal = "SIGTERM")

InvalidMessages(r) ==
    /\ pc[r] # "idle"
    /\ \/ body[r].messages.type = "undefined"
       \/ body[r].messages.type # "array"
       \/ body[r].messages = JArr(<<>>)

\* C4: a request whose messages field is missing, is not an array, or is an
\* empty array is answered 400 with type 'invalid_request_error' and code
\* 'invalid_request', and execute is not called for it: no subprocess exists
\* for the request and the count of execute calls is the count of the other
\* requests.
C4_InvalidRequestIs400 ==
    /\ \A r \in Reqs :
          InvalidMessages(r) =>
              /\ response[r].status = 400
              /\ response[r].body.error.type = "invalid_request_error"
              /\ response[r].body.error.code = "invalid_request"
              /\ child[r] = NoChild
              /\ outcome[r] = NoOutcome
    /\ executeCalls = Cardinality({r \in Reqs : pc[r] # "idle" /\ ~InvalidMessages(r)})

\* an empty array was rejected while another request was executed
C4_Witness ==
    \E r, q \in Reqs :
        /\ InvalidMessages(r) /\ body[r].messages = JArr(<<>>) /\ response[r].status = 400
        /\ Executed(q) /\ executeCalls = 1

RECURSIVE TurnSequence(_)
\* the messages whose role is not system, in their order
TurnSequence(ms) ==
    IF ms = <<>> THEN <<>>
    ELSE IF Head(ms).role = "system" THEN TurnSequence(Tail(ms))
    ELSE <<Head(ms)>> \o TurnSequence(Tail(ms))

\* C5: whenever the handler has called execute, the turn sequence of the
\* messages it passed is not empty.
C5_TurnSequenceNonEmpty ==
    \A r \in Reqs : Executed(r) => TurnSequence(body[r].messages.items) # <<>>

----------------------------------------------------------------------------
(* Properties of the prompt builders, checked under SpecBuild *)

\* the string s begins with the string p
StartsWith(s, p) == Len(s) >= Len(p) /\ SubSeq(s, 1, Len(p)) = p

\* the string p occurs in the string s
Contains(s, p) == \E i \in 1..(Len(s) - Len(p) + 1) : SubSeq(s, i, i + Len(p) - 1) = p

RECURSIVE FirstSystemContent(_)
\* the content of the first message whose role is system, empty when none is
FirstSystemContent(ms) ==
    IF ms = <<>> THEN <<>>
    ELSE IF Head(ms).role = "system" THEN Head(ms).content
    ELSE FirstSystemContent(Tail(ms))

\* the fixed conversation-context instruction of the adapter
FixedInstruction ==
    IF adapter.kind = "claude-code" THEN ClaudeConversationSystemPrompt
    ELSE GeminiConversationSystemPrompt

\* the effective system prompt the specification asks for
ExpectedSystemPrompt ==
    IF FirstSystemContent(messages) # <<>>
    THEN Str(FirstSystemContent(messages)) \o "\n\n" \o FixedInstruction
    ELSE FixedInstruction

\* what the Gemini prompt puts before the user payload
GeminiPrefix == "System instructions:\n" \o ExpectedSystemPrompt \o "\n\n"

\* the system prompt was built as expected: Claude's own field, Gemini's prefix
BuiltSystemPromptAsExpected ==
    IF built.kind = "claude-code" THEN built.systemPrompt = ExpectedSystemPrompt
    ELSE StartsWith(built.prompt, GeminiPrefix)

\* the user payload that was built: Claude's userPrompt, the rest of Gemini's
\* prompt after the system part
BuiltPayload ==
    IF built.kind = "claude-code" THEN built.userPrompt
    ELSE SubSeq(built.prompt, Len(GeminiPrefix) + 1, Len(built.prompt))

\* everything that is handed to the subprocess as prompt text
BuiltText == IF built.kind = "claude-code" THEN built.userPrompt ELSE built.prompt

Turns == TurnSequence(messages)

\* C6: for a list with N > 1 non-system messages the user payload is the label
\* 'Conversation history:', a line break, the JSON serialization (indent 2) of
\* the first N-1 non-system messages in their order, a blank line, and
\* 'Current user message: ' followed by the content of the N-th, whatever its
\* role.
C6_HistoryThenCurrent ==
    (built.kind # "none" /\ Len(Turns) > 1) =>
        /\ built.kind = "gemini-cli" => StartsWith(built.prompt, GeminiPrefix)
        /\ BuiltPayload =
               "Conversation history:\n"
                   \o JSONStringifyPretty([i \in 1..(Len(Turns) - 1) |-> Turns[i]])
                   \o "\n\n"
                   \o "Current user message: " \o Str(Turns[Len(Turns)].content)

\* a list with a system message between the turns, ending in an assistant
\* message, with a content that JSON escapes
C6_Witness ==
    /\ built.kind # "none"
    /\ Len(messages) = 3
    /\ messages[1].role = "user" /\ messages[1].content = <<"b", "\"", "\n">>
    /\ messages[2].role = "system"
    /\ messages[3].role = "assistant" /\ messages[3].content = <<"a">>
    /\ Contains(BuiltPayload, "\"content\": \"b\\\"\\n\"")

\* C7: for a list with exactly one non-system message, with or without system
\* messages, the payload is 'Current user message: ' followed by that
\* message's content and nothing else; the label 'Conversation history:' is
\* not in the prompt text.
C7_SingleTurnHasNoHistory ==
    (built.kind # "none" /\ Len(Turns) = 1) =>
        /\ built.kind = "gemini-cli" => StartsWith(built.prompt, GeminiPrefix)
        /\ BuiltPayload = "Current user message: " \o Str(Turns[1].content)
        /\ ~Contains(BuiltText, "Conversation history:")

\* one user message after a system message
C7_Witness ==
    /\ built.kind # "none"
    /\ Len(messages) = 2
    /\ messages[1].role = "system" /\ messages[1].content # <<>>
    /\ messages[2].role = "user" /\ messages[2].content = <<"b", "\"", "\n">>
    /\ BuiltPayload = "Current user message: b\"\n"

\* C8: the effective system prompt is the content of the first system message,
\* a blank line and the fixed instruction when that content is not empty, and
\* the fixed instruction alone when there is no system message or the content
\* of the first one is empty.
C8_EffectiveSystemPrompt ==
    built.kind # "none" => BuiltSystemPromptAsExpected

\* two system messages with different contents, the first not empty
C8_Witness ==
    /\ built.kind # "none"
    /\ Len(messages) = 3
    /\ messages[1].role = "user"
    /\ messages[2].role = "system" /\ messages[2].content = <<"a">>
    /\ messages[3].role = "system" /\ messages[3].content = <<"b", "\"", "\n">>
    /\ BuiltSystemPromptAsExpected

----------------------------------------------------------------------------
(* Subprocess accounting, checked under Spec; termination, under FairSpec *)

\* C9: every execute call spawns one subprocess, however the call ends: after
\* k calls k subprocesses have been spawned, and the count does not move when
\* a call ends in text, in the Timeout failure or in a generic failure.
C9_OneSubprocessPerExecute ==
    /\ spawned = executeCalls
    /\ executeCalls = Cardinality({r \in Reqs : Executed(r)})

\* two calls have ended, one in text and one in a failure, and two
\* subprocesses were spawned
C9_Witness ==
    \E r, q \in Reqs :
        /\ pc[r] = "done" /\ outcome[r].kind = "returned"
        /\ pc[q] = "done" /\ outcome[q].kind = "thrown"
        /\ executeCalls = 2
        /\ spawned = 2

\* C10: the subprocess of every execute call runs under the configured timeout
\* (30000 ms by default); a call whose subprocess never exits on its own ends
\* with the Timeout failure, and every request that was accepted is answered.
C10_HangingCallTimesOut ==
    /\ [](\A r \in Reqs :
              pc[r] = "running" =>
                  /\ child[r].call.options.timeout = adapter.timeout
                  /\ adapter.timeout = DefaultTimeout)
    /\ \A r \in Reqs :
           (pc[r] = "running") ~>
               /\ pc[r] = "done"
               /\ response[r] # NoResponse
               /\ child[r].hangs => ThrewTimeout(r)

\* a subprocess that never exits on its own was killed by the timeout and the
\* request was answered
C10_Witness ==
    \E r \in Reqs :
        /\ pc[r] = "done"
        /\ child[r].hangs
        /\ child[r].killSent
        /\ ThrewTimeout(r)
        /\ response[r] # NoResponse

----------------------------------------------------------------------------
(* Properties of AdapterFactory.create, checked under SpecFactory *)

\* a letter in lower case, a hyphen as a space, any other character as it is
PlainChar(c) ==
    CASE c = "A" -> "a" [] c = "B" -> "b" [] c = "C" -> "c" [] c = "D" -> "d"
      [] c = "E" -> "e" [] c = "F" -> "f" [] c = "G" -> "g" [] c = "H" -> "h"
      [] c = "I" -> "i" [] c = "J" -> "j" [] c = "K" -> "k" [] c = "L" -> "l"
      [] c = "M" -> "m" [] c = "N" -> "n" [] c = "O" -> "o" [] c = "P" -> "p"
      [] c = "Q" -> "q" [] c = "R" -> "r" [] c = "S" -> "s" [] c = "T" -> "t"
      [] c = "U" -> "u" [] c = "V" -> "v" [] c = "W" -> "w" [] c = "X" -> "x"
      [] c = "Y" -> "y" [] c = "Z" -> "z" [] c = "-" -> " "
      [] OTHER -> c

RECURSIVE Plain(_)
Plain(str) ==
    IF str = "" THEN "" ELSE PlainChar(SubSeq(str, 1, 1)) \o Plain(SubSeq(str, 2, Len(str)))

\* the message names the kind: it spells it, whatever the case of the letters
\* and with a hyphen or a space between its words
NamesKind(message, type) == Contains(Plain(message), Plain(type))

\* the kinds the specification counts as implemented
ImplementedKinds == {"claude-code", "gemini-cli"}

\* C11: once AdapterFactory.create has been called it has either returned an
\* adapter of an implemented kind or thrown; for every kind that is not
\* implemented it has thrown, and every error it throws has a message that
\* names the requested kind.
C11_UnimplementedKindFailsAtCreate ==
    created # NoOutcome =>
        /\ created.kind \in {"returned", "thrown"}
        /\ config.type \notin ImplementedKinds => created.kind = "thrown"
        /\ created.kind = "returned" => getName(created.value) \in ImplementedKinds
        /\ created.kind = "thrown" => NamesKind(created.error.message, config.type)

\* create was called for a kind that is not declared and threw
C11_Witness ==
    /\ config.type = "my-agent"
    /\ created.kind = "thrown"
    /\ created.error.message = "Unknown adapter type: my-agent"

\* the adapter the specification expects for a configuration
ExpectedAdapter(cfg) ==
    IF cfg.type = "claude-code"
    THEN ClaudeCodeAdapter(cfg.runtimeDir, cfg.timeout, cfg.debug)
    ELSE GeminiCLIAdapter(cfg.runtimeDir, cfg.timeout, cfg.debug, cfg.model)

\* C12: for the kinds 'claude-code' and 'gemini-cli' AdapterFactory.create
\* returns an adapter whose getName() is the configured kind, built with the
\* configuration's runtime directory, timeout and debug flag (and, for the
\* adapter that has one, its model).
C12_CreateReturnsConfiguredAdapter ==
    (created # NoOutcome /\ config.type \in ImplementedKinds) =>
        /\ created.kind = "returned"
        /\ getName(created.value) = config.type
        /\ created.value = ExpectedAdapter(config)

----------------------------------------------------------------------------
(* Properties of the 200 response, checked under Spec *)

\* ceil(n / 4) of a natural number n
CeilQuarter(n) == CHOOSE q \in 0..n : 4 * q >= n /\ 4 * (q - 1) < n

\* C13: in every 200 response prompt_tokens is ceil(length of the serialized
\* request messages / 4), completion_tokens is ceil(length of the response
\* text / 4), and total_tokens is their sum.
C13_UsageTokens ==
    \A r \in Reqs :
        (pc[r] = "done" /\ response[r].status = 200) =>
            LET usage == response[r].body.usage
                content == response[r].body.choices[1].message.content
                prompt == CeilQuarter(Len(MessagesText(body[r].messages.items)))
                completion == CeilQuarter(Len(content.value))
            IN  /\ usage.prompt_tokens = JNum(prompt)
                /\ usage.completion_tokens = JNum(completion)
                /\ usage.total_tokens = JNum(prompt + completion)

----------------------------------------------------------------------------
(* Properties of the output normalisers, checked under SpecOutput *)

\* the document the output parses to in structured-output mode
ParsedDoc == JSONParse(Trim(stripAnsi(raw)))

Extracted == normalized # NoOutcome /\ normalized.by = "extractResponse"

\* the document has a candidates[0].content.parts array whose parts are
\* objects with at most a text string
HasPartsShape(doc) ==
    /\ doc.type = "object"
    /\ HasCandidateParts(doc)
    /\ \A i \in DOMAIN CandidateParts(doc).items :
           LET part == CandidateParts(doc).items[i]
           IN  /\ part.type = "object"
               /\ Get(part, "text").type \in {"undefined", "string"}

\* the texts of the parts that have one, concatenated in array order
RECURSIVE ConcatTexts(_)
ConcatTexts(parts) ==
    IF parts = <<>> THEN <<>>
    ELSE (IF Get(Head(parts), "text").type = "string" THEN Get(Head(parts), "text").value
          ELSE <<>>)
         \o ConcatTexts(Tail(parts))

\* C14: when the output parses to a document with a candidates[0].content.parts
\* array, extractResponse returns the texts of the parts that have one,
\* concatenated in array order, whatever top-level text or response field the
\* document has.
C14_PartsConcatenated ==
    (Extracted /\ raw # <<>> /\ ParsedDoc.ok /\ HasPartsShape(ParsedDoc.value)) =>
        /\ normalized.kind = "returned"
        /\ normalized.value = JStr(ConcatTexts(CandidateParts(ParsedDoc.value).items))

\* a coloured document with three parts, one of them without a text, and
\* top-level text and response fields gave the two texts joined
C14_Witness ==
    /\ Extracted
    /\ raw = ColourReset
               \o JSONText(CandidatesDocWithText(
                      JArr(<<TextPart(<<"o">>), JObj(<<>>, <<>>), TextPart(<<"k">>)>>),
                      <<"n">>, <<"o">>))
               \o ColourReset \o <<"\n">>
    /\ normalized.value = JStr(<<"o", "k">>)

\* the document has the field
Present(doc, key) == doc.type = "object" /\ Get(doc, key) # Undefined

\* what the fixed order of shape matchers gives for a parsed document
ShapeOrderResult(doc) ==
    IF doc.type = "string" THEN doc
    ELSE IF HasPartsShape(doc) THEN JStr(ConcatTexts(CandidateParts(doc).items))
    ELSE IF Present(doc, "text") THEN Get(doc, "text")
    ELSE IF Present(doc, "response") THEN Get(doc, "response")
    ELSE JStr(JSONText(doc))

\* C15: in structured-output mode a parsed plain string is returned directly;
\* else the candidates shape applies; else a top-level text field that is
\* present is returned, whatever its value; else a top-level response field
\* that is present is returned; else the re-serialized document is returned.
C15_ShapeOrder ==
    (Extracted /\ raw # <<>> /\ ParsedDoc.ok) =>
        /\ normalized.kind = "returned"
        /\ normalized.value = ShapeOrderResult(ParsedDoc.value)

\* the try block of extractResponse fails on the output: it is no document, or
\* reading its shape throws
TryFails == extractResponseTry(Trim(stripAnsi(raw))).kind = "thrown"

\* the subprocess exits with code 0 after printing the output
ExitedWith(stdout) == [err |-> NoError, stdout |-> stdout, stderr |-> <<>>]

\* C16: the output normalisers never throw: whatever the output, they return
\* a value, and when parsing or reading the shape fails extractResponse
\* returns the plain-text normalisation of the ANSI-stripped, trimmed output;
\* an execute call whose subprocess exited with code 0 and that output
\* returns, and the request is answered 200.
C16_NormaliserNeverThrows ==
    normalized # NoOutcome =>
        /\ normalized.kind = "returned"
        /\ (Extracted /\ raw # <<>> /\ TryFails) =>
               normalized.value = JStr(cleanOutput(Trim(stripAnsi(raw))))
        /\ executeSettle(adapter, ExitedWith(raw)).kind = "returned"
        /\ \A request \in RequestBodies :
               Validate(request) = NoResponse =>
                   Respond(adapter, request, executeSettle(adapter, ExitedWith(raw))).status
                       = 200

\* a document whose second part is null, on which reading part.text throws,
\* came back as its own text
C16_Witness ==
    /\ Extracted
    /\ raw = JSONText(CandidatesDoc(JArr(<<TextPart(<<"o">>), JNull>>))) \o <<"\n">>
    /\ TryFails
    /\ normalized.kind = "returned"
    /\ normalized.value = JStr(JSONText(CandidatesDoc(JArr(<<TextPart(<<"o">>), JNull>>))))

Cleaned == normalized # NoOutcome /\ normalized.by = "cleanOutput"

\* C17: plain-text normalisation is idempotent: normalising the text that
\* cleanOutput returned gives that text again.
C17_CleanOutputIdempotent ==
    Cleaned => cleanOutput(normalized.value.value) = normalized.value.value

\* C18: normalising an output gives the same result as normalising the output
\* with its ANSI escape sequences stripped beforehand, in plain-text mode and
\* in structured-output mode.
C18_AnsiPreStripEquivalent ==
    /\ Cleaned => normalized.value = JStr(cleanOutput(stripAnsi(raw)))
    /\ Extracted =>
           /\ normalized.kind = extractResponse(stripAnsi(raw)).kind
           /\ normalized.value = extractResponse(stripAnsi(raw)).value

----------------------------------------------------------------------------
(* Debug mode, checked under Spec *)

\* the adapter with its debug flag inverted
DebugFlipped(a) == [a EXCEPT !.debug = ~a.debug]

\* C19: debug mode does not alter the outcome: for every request whose
\* execute call has settled, the adapter with the debug flag inverted makes
\* the same subprocess call for the same messages and, for the same report of
\* the subprocess, settles in the same way (the same text, or the same
\* error); only the console differs.
C19_DebugDoesNotAlterOutcome ==
    \A r \in Reqs :
        pc[r] = "done" =>
            /\ execFileCalls(DebugFlipped(adapter), body[r].messages.items)
                   = execFileCalls(adapter, body[r].messages.items)
            /\ executeSettle(DebugFlipped(adapter), cb[r]) = outcome[r]
            /\ (console[r] # <<>>) = adapter.debug

\* with debug on, a call wrote its debug lines to the console and returned
\* its text, and another wrote them and failed
C19_Witness ==
    \E r, q \in Reqs :
        /\ adapter.debug
        /\ pc[r] = "done" /\ outcome[r].kind = "returned" /\ Len(console[r]) >= 3
        /\ pc[q] = "done" /\ outcome[q].kind = "thrown"
        /\ console[q][Len(console[q])] = Warn("[DEBUG] Invocation failed. stderr:")

----------------------------------------------------------------------------
(* Properties of isAvailable, checked under SpecProbe *)

\* the probe invocations of each adapter, in the order they are tried
ExpectedProbes(kind) ==
    IF kind = "claude-code"
    THEN <<[file |-> "claude", args |-> <<"--version">>]>>
    ELSE <<[file |-> "gemini", args |-> <<"--version">>],
           [file |-> "gemini", args |-> <<"-p", "hello">>]>>

ProbeFailed(report) == report.err # NoError

\* C20: isAvailable ends by returning a boolean and never by throwing; the
\* probes it makes are those of its adapter, the next one made only after the
\* one before failed, each with the fixed timeout of 5000 ms whatever the
\* adapter's timeout; it returns true only when the last probe made exited
\* without error, and false only when every probe was made and failed.
C20_IsAvailable ==
    /\ Len(probe.made) <= Len(ExpectedProbes(adapter.kind))
    /\ \A i \in DOMAIN probe.made :
           /\ probe.made[i].file = ExpectedProbes(adapter.kind)[i].file
           /\ probe.made[i].args = ExpectedProbes(adapter.kind)[i].args
           /\ probe.made[i].options.timeout = ProbeTimeout
           /\ i > 1 => ProbeFailed(probe.reports[i - 1])
    /\ probe.pc = "done" =>
           /\ probe.result.kind = "returned"
           /\ probe.result.value \in BOOLEAN
           /\ Len(probe.reports) = Len(probe.made)
           /\ probe.result.value = ~ProbeFailed(probe.reports[Len(probe.reports)])
           /\ ~probe.result.value =>
                  /\ Len(probe.made) = Len(ExpectedProbes(adapter.kind))
                  /\ \A i \in DOMAIN probe.reports : ProbeFailed(probe.reports[i])

\* a Gemini adapter configured with a timeout of 60000 ms: 'gemini --version'
\* failed, 'gemini -p hello' exited without error, and isAvailable returned true
C20_Witness ==
    /\ adapter.kind = "gemini-cli"
    /\ adapter.timeout = 2 * DefaultTimeout
    /\ probe.pc = "done"
    /\ Len(probe.made) = 2
    /\ ProbeFailed(probe.reports[1])
    /\ probe.result = Returned(TRUE)

----------------------------------------------------------------------------
(* Properties of the command-line entry point, checked under SpecMain *)

\* the adapter was created and its probe returned true
StartupChecksPassed ==
    /\ created.kind = "returned"
    /\ probe.result = Returned(TRUE)

\* creation threw or the probe returned false
StartupCheckFailed == created.kind = "thrown" \/ probe.result = Returned(FALSE)

\* C21: the server is bound, listens and accepts requests only when
\* AdapterFactory.create has returned and isAvailable has returned true; the
\* probe starts only on a created adapter and binding starts only in the step
\* in which the probe returns true; when creation throws or the probe returns
\* false, the process has exited with code 1, has accepted no request, and
\* stays so.
C21_ListenOnlyAfterChecks ==
    /\ [](main.pc \in {"binding", "listening"} \/ main.accepted > 0 => StartupChecksPassed)
    /\ [](probe.pc # "idle" => created.kind = "returned")
    /\ [](StartupCheckFailed =>
             main.pc = "exited" /\ main.code = 1 /\ main.accepted = 0 /\ adapter.kind = "none")
    /\ [][/\ (main.pc # "binding" /\ main'.pc = "binding") =>
               (created.kind = "returned" /\ probe.pc = "probing" /\ probe'.result = Returned(TRUE))
          /\ (main'.pc = "listening" /\ main.pc # "listening") => main.pc = "binding"
          /\ main.pc = "exited" => main'.pc = "exited"]_vars

\* a server that listens and has accepted a request
C21_Witness == main.pc = "listening" /\ main.accepted > 0 /\ Len(probe.reports) > 0

----------------------------------------------------------------------------
(* Properties of the success response, checked under Spec *)

\* adapter.execute returned for request r
Succeeded(r) == pc[r] = "done" /\ outcome[r].kind = "returned"

\* the name each adapter class reports as its model
OwnModelName == IF adapter.kind = "claude-code" THEN "claude-code" ELSE "gemini-cli"

\* C22: a request whose adapter.execute returned is answered 200 with object
\* "chat.completion" and one choice, index 0, role assistant, finish_reason
\* stop, whose content is the value execute returned; the model is the
\* request's when it has one and the adapter's own name otherwise; the
\* subprocess was spawned from the request's messages, all of them, in order.
C22_SuccessResponse ==
    \A r \in Reqs :
        Succeeded(r) =>
            /\ response[r].status = 200
            /\ response[r].body.object = "chat.completion"
            /\ response[r].body.choices =
                   <<[index |-> 0,
                      message |-> [role |-> "assistant", content |-> outcome[r].value],
                      finish_reason |-> "stop"]>>
            /\ response[r].body.model =
                   (IF body[r].model # "" THEN body[r].model ELSE OwnModelName)
            /\ child[r].call = Invocation(adapter, body[r].messages.items)

\* a request without a model and a request with several messages succeeded
C22_Witness ==
    \E r, q \in Reqs :
        /\ Succeeded(r) /\ body[r].model = ""
        /\ Succeeded(q) /\ body[q].model # "" /\ Len(body[q].messages.items) > 1
        /\ outcome[q].value.type = "string" /\ Len(outcome[q].value.value) > 0

----------------------------------------------------------------------------
(* Properties of concurrent requests, checked under SpecOrder *)

\* what the model holds for request r alone
RequestState(r) == <<pc[r], body[r], child[r], cb[r], outcome[r], response[r], console[r]>>

\* the subprocess of request q runs, will not exit by itself, and its timeout
\* has not fired
StillRunning(q) == pc[q] = "running" /\ child[q].hangs /\ ~child[q].killSent

\* C23: requests served by the one adapter are independent.  Every request
\* that executes has a subprocess of its own, spawned from its own messages;
\* the response of a completed request is the one its own body and the report
\* of its own subprocess determine; a step of one request changes nothing of
\* another and never the adapter; and while the subprocess of one request
\* is still running, every other running request can take its next step: its
\* timeout can fire when its subprocess never exits, its subprocess can end
\* otherwise.
C23_RequestsIndependent ==
    /\ [](/\ spawned = Cardinality({r \in Reqs : Executed(r)})
          /\ \A r \in Reqs :
               /\ Executed(r) => child[r].call = Invocation(adapter, body[r].messages.items)
               /\ pc[r] = "done" =>
                      response[r] = Respond(adapter, body[r], executeSettle(adapter, cb[r]))
               /\ (pc[r] = "running" /\ \E q \in Reqs \ {r} : StillRunning(q)) =>
                      IF child[r].hangs /\ ~child[r].killSent
                      THEN ENABLED TimerFire(r) ELSE ENABLED ChildClose(r))
    /\ [][/\ adapter' = adapter
          /\ \A r, q \in Reqs :
               (r # q /\ RequestState(r)' # RequestState(r)) =>
                   RequestState(q)' = RequestState(q)]_vars

\* a request that arrived second has completed with its own content while the
\* subprocess of the request that arrived first is still running
C23_Witness ==
    \E r, q \in Reqs :
        /\ r < q
        /\ StillRunning(r) /\ body[r] # body[q]
        /\ pc[q] = "done" /\ response[q].status = 200

----------------------------------------------------------------------------
(* Properties of the Claude invocation, checked under Spec *)

----------------------------------------------------------------------------
(* Properties of the debug records and of the order of execute's steps,
   checked under Spec *)

\* the effective system prompt of request r
SystemPromptOf(r) ==
    SystemPrompt(body[r].messages.items,
                 IF adapter.kind = "claude-code" THEN ClaudeConversationSystemPrompt
                 ELSE GeminiConversationSystemPrompt)

\* the user payload of request r
UserPayloadOf(r) == HistoryPart(body[r].messages.items) \o LatestPart(body[r].messages.items)

\* some console.log record in records prints text
Records(records, text) ==
    \E i \in DOMAIN records : records[i].level = "log" /\ Contains(records[i].text, text)

\* the number of records execute wrote for request r before it spawned
PromptRecords(r) == IF adapter.kind = "claude-code" THEN 4 ELSE 2

\* C25: with debug on, the records of the system prompt and of the user
\* payload are on the console when the subprocess has been spawned, and no
\* record of output yet; when execute has returned, the records of the raw
\* output and of the duration follow them and are the last.  Every request
\* goes from arrival to spawned (prompt built, subprocess spawned) to
\* completed (report awaited, output normalized, value returned), no step is
\* skipped or repeated, the spawned call is never changed, and the console is
\* only appended to.
C25_DebugRecordsInOrder ==
    /\ [](\A r \in Reqs :
            (adapter.debug /\ Executed(r)) =>
                LET before == SubSeq(console[r], 1, MinOf(PromptRecords(r), Len(console[r])))
                    after == SubSeq(console[r], PromptRecords(r) + 1, Len(console[r]))
                IN  /\ Len(before) = PromptRecords(r)
                    /\ Records(before, SystemPromptOf(r))
                    /\ Records(before, UserPayloadOf(r))
                    /\ \A i \in DOMAIN before : before[i].label # "[DEBUG] Raw Output:"
                    /\ pc[r] = "running" => after = <<>>
                    /\ Succeeded(r) =>
                         /\ Len(after) = 2
                         /\ after[1].label = "[DEBUG] Raw Output:"
                         /\ after[1].text = Str(cb[r].stdout)
                         /\ after[2].label = "[DEBUG] Duration (ms):")
    /\ [][\A r \in Reqs :
            /\ pc'[r] # pc[r] =>
                   \/ pc[r] = "idle" /\ pc'[r] = "rejected" /\ child'[r] = NoChild
                   \/ /\ pc[r] = "idle" /\ pc'[r] = "running"
                      /\ child'[r].call = Invocation(adapter, body'[r].messages.items)
                      /\ outcome'[r] = NoOutcome
                   \/ /\ pc[r] = "running" /\ pc'[r] = "done"
                      /\ cb'[r] \in ExecFileResults(child[r])
                      /\ outcome'[r] = executeSettle(adapter, cb'[r])
            /\ Executed(r) => child'[r].call = child[r].call
            /\ pc'[r] = pc[r] => outcome'[r] = outcome[r] /\ console'[r] = console[r]
            /\ Len(console'[r]) >= Len(console[r])
            /\ SubSeq(console'[r], 1, Len(console[r])) = console[r]]_vars

\* with debug on, the Gemini adapter returned, for a request with history, a
\* text that differs from the raw output it recorded
C25_Witness ==
    \E r \in Reqs :
        /\ adapter.debug /\ adapter.kind = "gemini-cli" /\ Succeeded(r)
        /\ Len(body[r].messages.items) > 1
        /\ outcome[r].value.type = "string"
        /\ console[r][3].text # Str(outcome[r].value.value)

----------------------------------------------------------------------------
(* Properties of the subprocess options, checked under SpecOptions *)

\* C26: every subprocess is spawned with the adapter's working directory, the
\* adapter's timeout and a buffer ceiling of 10 MB; requests with the same
\* messages cause the same invocation (file, argv, options, standard input)
\* whatever their model, temperature, max_tokens and stream; and no step
\* changes the adapter.
C26_OptionsFixedByAdapter ==
    /\ [](\A r \in Reqs :
            Executed(r) =>
                /\ child[r].call.options =
                       [cwd |-> adapter.runtimeDir, timeout |-> adapter.timeout,
                        maxBuffer |-> 10485760]
                /\ \A q \in Reqs :
                       (Executed(q) /\ body[q].messages = body[r].messages) =>
                           child[q].call = child[r].call)
    /\ [][adapter' = adapter]_vars

\* two requests with the same messages and different model, temperature,
\* max_tokens and stream have both spawned their subprocess
C26_Witness ==
    \E r, q \in Reqs :
        /\ Executed(r) /\ Executed(q)
        /\ body[r].messages = body[q].messages
        /\ body[r].model # body[q].model
        /\ body[r].temperature # body[q].temperature
        /\ body[r].max_tokens # body[q].max_tokens
        /\ body[r].stream # body[q].stream

----------------------------------------------------------------------------
(* The Gemini prompt against the Claude prompts, checked under SpecBuild *)

\* C27: the prompt the Gemini adapter builds is 'System instructions:', a line
\* break, the effective system prompt, a blank line, and the user payload the
\* Claude adapter builds for the same messages.
C27_GeminiPromptFromClaudePayload ==
    built.kind = "gemini-cli" =>
        built.prompt = "System instructions:\n" \o ExpectedSystemPrompt \o "\n\n"
                           \o buildClaudeCodeCommand(messages).userPrompt

\* the Gemini adapter built a prompt from a system message and a history
C27_Witness ==
    /\ built.kind = "gemini-cli"
    /\ FirstSystemContent(messages) # <<>>
    /\ Len(Turns) > 1
    /\ Contains(built.prompt, "Conversation history:")

----------------------------------------------------------------------------
(* What plain-text normalisation leaves alone, checked under SpecOutput *)

\* the lines of s: the runs of characters between line feeds
LinesOf(s) ==
    LET breaks == {0, Len(s) + 1} \cup {i \in 1..Len(s) : s[i] = "\n"}
    IN  {SubSeq(s, i + 1, j - 1) :
            <<i, j>> \in {p \in breaks \X breaks :
                             p[1] < p[2] /\ \A k \in breaks : ~(p[1] < k /\ k < p[2])}}

\* a line that holds spinner characters, '[' and ']' among them, and nothing
\* else but spaces
SpinnerOnly(line) ==
    /\ \E i \in 1..Len(line) : line[i] \in SpinnerClass
    /\ \A i \in 1..Len(line) : line[i] \in SpinnerClass \cup {" "}

\* s holds nothing the normalisation is said to remove but white space at its
\* ends: no ANSI escape sequence, no carriage return, no line of spinner
\* characters alone
NothingToRemove(s) ==
    /\ AnsiMatched(s) = {}
    /\ \A i \in 1..Len(s) : s[i] # "\r"
    /\ \A line \in LinesOf(s) : ~SpinnerOnly(line)

\* C28: an output that holds no ANSI escape sequence, no carriage return and
\* no line of spinner characters alone is returned by cleanOutput with its
\* leading and trailing white space trimmed and nothing else changed.
C28_OnlyListedRemoved ==
    (Cleaned /\ NothingToRemove(raw)) => normalized.value.value = Trim(raw)

----------------------------------------------------------------------------
(* Several system messages in one request, checked under SpecBuild *)

\* the positions of the system messages that follow an earlier system message
LaterSystems ==
    {i \in 1..Len(messages) : /\ messages[i].role = "system"
                              /\ \E j \in 1..(i - 1) : messages[j].role = "system"}

\* the messages without those later system messages, in their order
WithoutLaterSystems ==
    LET kept == (1..Len(messages)) \ LaterSystems
        at(k) == CHOOSE i \in kept : Cardinality({j \in kept : j <= i}) = k
    IN  [k \in 1..Cardinality(kept) |-> messages[at(k)]]

\* the system prompt, history block and current-message line that were built
BuiltParts ==
    IF built.kind = "claude-code" THEN built.systemPrompt \o "\n" \o built.userPrompt
    ELSE built.prompt

\* the same parts as built from the messages without the later system messages
PartsWithoutLaterSystems ==
    IF built.kind = "claude-code"
    THEN buildClaudeCodeCommand(WithoutLaterSystems).systemPrompt \o "\n"
             \o buildClaudeCodeCommand(WithoutLaterSystems).userPrompt
    ELSE buildGeminiPrompt(WithoutLaterSystems)

\* C29: when a list holds more than one system message only the first
\* contributes: what is built is what is built from the list without the later
\* system messages, wherever they stand, and a later system message's content
\* that the remaining messages and the fixed texts do not contain occurs
\* nowhere in the system prompt, the history block or the current-message line.
C29_OnlyFirstSystemContributes ==
    (built.kind # "none" /\ LaterSystems # {}) =>
        /\ built = IF built.kind = "claude-code"
                   THEN [kind |-> "claude-code"] @@ buildClaudeCodeCommand(WithoutLaterSystems)
                   ELSE [kind |-> "gemini-cli", prompt |-> buildGeminiPrompt(WithoutLaterSystems)]
        /\ \A i \in LaterSystems :
              (/\ messages[i].content # <<>>
               /\ ~Contains(PartsWithoutLaterSystems, Str(messages[i].content))
               /\ ~Contains(PartsWithoutLaterSystems, JSONEscape(messages[i].content)))
              => /\ ~Contains(BuiltParts, Str(messages[i].content))
                 /\ ~Contains(BuiltParts, JSONEscape(messages[i].content))

\* a prompt was built from a list whose last message is a second system
\* message with a content of its own, after a first system message and a
\* non-system message
C29_Witness ==
    /\ built.kind # "none"
    /\ Len(messages) = 3
    /\ 3 \in LaterSystems
    /\ messages[1].role = "system"
    /\ messages[2].role # "system"
    /\ messages[3].content = <<"b", "\"", "\n">>
    /\ messages[1].content = <<"a">>
    /\ messages[2].content = <<"a">>
    /\ ~Contains(BuiltParts, Str(messages[3].content))

----------------------------------------------------------------------------
(* The type of what structured extraction returns, checked under SpecOutput *)

\* C30: whenever extractResponse returns, and execute with it, the value
\* returned is a string, for every stdout, also for documents whose top-level
\* text or response field or whose parts' text fields hold a number, an object
\* or an array.
C30_ExecuteReturnsString ==
    (Extracted /\ normalized.kind = "returned") => normalized.value.type = "string"

====
